---- MODULE Spec2Model ----
(***************************************************************************)
(* Message-passing layers of the DGL tutorials (blitz_intro):              *)
(*   SAGEConv.forward          3_message_passing.ipynb, lines 116-135      *)
(*   WeightedSAGEConv.forward  3_message_passing.ipynb, lines 373-394      *)
(* A graph carries two feature tables (ndata, edata).  A forward call      *)
(* enters g.local_scope(), assigns temporary features, runs update_all     *)
(* with a built-in message and reduce function, concatenates the input     *)
(* with the aggregate and applies nn.Linear.                               *)
(* On top of the layers: the two-layer networks (Model, GraphSAGE, GCN),   *)
(* the edge predictors and the data preparation of 4_link_predict.ipynb    *)
(* (edge split, negative sampling, dgl.remove_edges, example graphs).      *)
(* The user-defined message and reduce functions are compared with the     *)
(* built-in ones, and the training loops of the notebooks are run          *)
(* statement by statement.                                                 *)
(* Each part has its own specification over the same variables: Spec,      *)
(* SpecNet, SpecScore, SpecSplit, SpecUdf, SpecConv, SpecTrain and         *)
(* SpecTrainFair.                                                          *)
(*                                                                         *)
(* Tensor entries are fixed-point numbers: the integer k stands for        *)
(* k / Scale.  Scale is a multiple of every product of two in-degrees that *)
(* occur, so that the means of two stacked layers are exact; the float32   *)
(* rounding of the tensor library is not modelled.                         *)
(***************************************************************************)
EXTENDS Integers, Sequences, FiniteSets, TLC

VARIABLES
    g,        \* the graph's connectivity
    ndata,    \* the graph's stored node feature table
    edata,    \* the graph's stored edge feature table
    h,        \* the caller's node feature tensor
    w,        \* the caller's edge weight tensor
    linear,   \* the layer's learnable parameters (self.linear)
    last,     \* the layer whose forward was the latest step, "none" otherwise
    again,    \* whether that layer had been called before the latest step
    ret,      \* the outcome of the latest forward call of a layer
    net,      \* the outcome of the latest forward call of a network
    lp,       \* the variables of the link-prediction data preparation
    mp,       \* the outcomes of the two update_all calls compared
    tr        \* the variables of a training loop

vars == <<g, ndata, edata, h, w, linear, last, again, ret, net, lp, mp, tr>>

\* Largest number of nodes and of edges of the graphs explored.
MaxNodes == 3
MaxEdges == 2
\* Number of edges of the larger graphs the data preparation is run on.
SplitEdges == 10
\* Number of nodes of the graph the training loops run on, and number of
\* parameter settings of the model trained.
TrainNodes == 4
ThetaStates == 5
\* for e in range(...): the epochs of the three training loops.
EpochsMessagePassing == 200
EpochsNodeClassification == 100
EpochsLinkPrediction == 100

-----------------------------------------------------------------------------
(* Fixed-point numbers.                                                  *)

RECURSIVE Factorial(_)
Factorial(n) == IF n <= 1 THEN 1 ELSE n * Factorial(n - 1)

\* One unit; a multiple of every j * k with j and k in 1..MaxEdges.
Scale == Factorial(MaxEdges) * Factorial(MaxEdges)

\* The integer n as a fixed-point number.
Fix(n) == n * Scale
\* Product of two fixed-point numbers, one of which is an integer.
FMul(a, b) == (a * b) \div Scale
\* Quotient of a fixed-point number by a positive integer.
FDiv(a, k) == a \div k

-----------------------------------------------------------------------------
(* Dense two-dimensional tensors: shape (rows, cols) and the row data.      *)

Tensor(r, c, d) == [rows |-> r, cols |-> c, data |-> d]

\* The (r, c) tensor whose entries all equal x; rows and columns are 1-based.
Const(r, c, x) == Tensor(r, c, [i \in 1..r |-> [j \in 1..c |-> x]])

NoTensor == [rows |-> -1, cols |-> -1, data |-> <<>>]

\* Row vectors: sequences of fixed-point numbers of one length.
Zeros(c) == [j \in 1..c |-> 0]
VAdd(x, y) == [j \in 1..Len(x) |-> x[j] + y[j]]
VDiv(x, k) == [j \in 1..Len(x) |-> FDiv(x[j], k)]

\* Element-wise product of two rows under the broadcasting rule: a row of
\* width 1 is stretched to the width of the other.
BroadcastMul(x, y) ==
    LET c == IF Len(x) >= Len(y) THEN Len(x) ELSE Len(y)
    IN  [j \in 1..c |-> FMul(x[IF Len(x) = 1 THEN 1 ELSE j],
                             y[IF Len(y) = 1 THEN 1 ELSE j])]

Broadcastable(a, b) == a = b \/ a = 1 \/ b = 1

-----------------------------------------------------------------------------
(* Graphs: nodes 0..num_nodes-1 and a list of directed edges; edge id e is  *)
(* position e+1 of src and dst.  Parallel edges and self-loops are allowed. *)

Graph(n, codes) ==
    [num_nodes |-> n,
     src |-> [i \in 1..Len(codes) |-> codes[i] \div n],
     dst |-> [i \in 1..Len(codes) |-> codes[i] % n]]

num_edges(gr) == Len(gr.src)

\* Every multiset of at most MaxEdges edges over n nodes, listed in one order.
EdgeLists(n) ==
    {s \in UNION {[1..k -> 0..(n * n - 1)] : k \in 0..MaxEdges} :
        \A i \in 1..Len(s) : \A j \in 1..Len(s) : i < j => s[i] <= s[j]}

Graphs == UNION {{Graph(n, s) : s \in EdgeLists(n)} : n \in 1..MaxNodes}

in_degrees(gr, v) == Cardinality({e \in 1..num_edges(gr) : gr.dst[e] = v})

-----------------------------------------------------------------------------
(* Feature tables (frames): a function from the keys present to tensors.    *)

EmptyFrame == [k \in {} |-> NoTensor]

SetColumn(frame, key, t) ==
    [k \in (DOMAIN frame) \cup {key} |-> IF k = key THEN t ELSE frame[k]]

Ok(v) == [err |-> "", val |-> v]
Err(e) == [err |-> e, val |-> NoTensor]

\* set_ndata that leaves a column already present as it is.
set_ndata_keep_existing(gr, nframe, key, t) ==
    IF t.rows # gr.num_nodes THEN Err("DGLError")
    ELSE IF key \in DOMAIN nframe THEN Ok(nframe)
    ELSE Ok(SetColumn(nframe, key, t))

\* g.ndata[key] = t: the table takes one row per node.
set_ndata(gr, nframe, key, t) ==
    IF t.rows # gr.num_nodes THEN Err("DGLError")
    ELSE Ok(SetColumn(nframe, key, t))

\* set_edata without the check of the number of rows.
set_edata_unchecked(gr, eframe, key, t) == Ok(SetColumn(eframe, key, t))

\* g.edata[key] = t: the table takes one row per edge.
set_edata(gr, eframe, key, t) ==
    IF t.rows # num_edges(gr) THEN Err("DGLError")
    ELSE Ok(SetColumn(eframe, key, t))

\* with g.local_scope(): the graph works on clones of its two frames.
local_scope_enter(nframe, eframe) == [nframes |-> nframe, eframes |-> eframe]

\* Leaving a scope that never puts the saved frames back.
local_scope_exit_no_restore(old, cur, raised) == cur

\* Leaving the scope.  local_scope is a generator context manager that puts
\* the saved frames back after its yield; it has no try/finally, so when the
\* body raises, the statements after the yield are skipped and the graph
\* keeps the working frames.
local_scope_exit(old, cur, raised) == IF raised THEN cur ELSE old

-----------------------------------------------------------------------------
(* Built-in message and reduce functions, update_all.                       *)

\* fn.copy_v in place of fn.copy_u: the message is the destination's row.
fn_copy_v(gr, nframe, u) ==
    Ok(Tensor(num_edges(gr), nframe[u].cols,
              [e \in 1..num_edges(gr) |-> nframe[u].data[gr.dst[e] + 1]]))

\* fn.copy_u(u, out): the message of edge e is the row of its source node.
fn_copy_u(gr, nframe, u) ==
    Ok(Tensor(num_edges(gr), nframe[u].cols,
              [e \in 1..num_edges(gr) |-> nframe[u].data[gr.src[e] + 1]]))

\* fn.u_mul_e(u, e, out): source row times the edge's row, with broadcasting.
fn_u_mul_e(gr, nframe, eframe, u, ekey) ==
    IF ~Broadcastable(nframe[u].cols, eframe[ekey].cols) THEN Err("DGLError")
    ELSE Ok(Tensor(num_edges(gr),
                   IF nframe[u].cols >= eframe[ekey].cols
                       THEN nframe[u].cols ELSE eframe[ekey].cols,
                   [e \in 1..num_edges(gr) |->
                       BroadcastMul(nframe[u].data[gr.src[e] + 1],
                                    eframe[ekey].data[e])]))

\* Sum of the messages of the edges 1..k whose destination is v.
RECURSIVE SumIn(_, _, _, _)
SumIn(gr, msg, v, k) ==
    IF k = 0 THEN Zeros(msg.cols)
    ELSE IF gr.dst[k] = v THEN VAdd(SumIn(gr, msg, v, k - 1), msg.data[k])
         ELSE SumIn(gr, msg, v, k - 1)

\* The larger of two rows, component by component.
VMax(x, y) ==
    [j \in 1..Len(x) |-> IF x[j] >= y[j] THEN x[j] ELSE y[j]]

\* Maximum of the messages of the edges 1..k whose destination is v; none
\* stands for "no message yet".
RECURSIVE MaxIn(_, _, _, _, _)
MaxIn(gr, msg, v, k, none) ==
    IF k = 0 THEN none
    ELSE LET rest == MaxIn(gr, msg, v, k - 1, none)
         IN  IF gr.dst[k] # v THEN rest
             ELSE IF rest = none THEN msg.data[k]
             ELSE VMax(rest, msg.data[k])

\* fn.max in place of fn.mean: component-wise maximum, zeros without in-edges.
fn_max(gr, msg) ==
    Tensor(gr.num_nodes, msg.cols,
           [i \in 1..gr.num_nodes |->
               LET x == MaxIn(gr, msg, i - 1, num_edges(gr), <<>>)
               IN  IF x = <<>> THEN Zeros(msg.cols) ELSE x])

\* fn.mean without the division by the in-degree.
fn_mean_undivided(gr, msg) ==
    Tensor(gr.num_nodes, msg.cols,
           [i \in 1..gr.num_nodes |-> SumIn(gr, msg, i - 1, num_edges(gr))])

\* fn.mean(msg, out): the sum of the incoming messages over the in-degree,
\* the in-degree clamped to at least 1 (a node without in-edges gets zeros).
fn_mean(gr, msg) ==
    Tensor(gr.num_nodes, msg.cols,
           [i \in 1..gr.num_nodes |->
               LET deg == in_degrees(gr, i - 1)
               IN  VDiv(SumIn(gr, msg, i - 1, num_edges(gr)),
                        IF deg < 1 THEN 1 ELSE deg)])

\* update_all that reduces only at nodes with in-edges and gives the other
\* nodes their own row of "h".
update_all_keep_isolated(gr, nframe, eframe, message_func) ==
    LET msg == IF message_func = "copy_u" THEN fn_copy_u(gr, nframe, "h")
               ELSE fn_u_mul_e(gr, nframe, eframe, "h", "w")
    IN  IF msg.err # "" THEN [err |-> msg.err, nframes |-> nframe, m |-> NoTensor]
        ELSE [err |-> "", m |-> msg.val,
              nframes |-> SetColumn(nframe, "h_N",
                  Tensor(gr.num_nodes, msg.val.cols,
                         [i \in 1..gr.num_nodes |->
                             IF in_degrees(gr, i - 1) = 0 THEN nframe["h"].data[i]
                             ELSE fn_mean(gr, msg.val).data[i]]))]

\* update_all on the graph with every edge turned round: the message of an
\* edge is made from its destination and reduced at its source.
update_all_reversed(gr, nframe, eframe, message_func) ==
    LET rev == [gr EXCEPT !.src = gr.dst, !.dst = gr.src]
        msg == IF message_func = "copy_u" THEN fn_copy_u(rev, nframe, "h")
               ELSE fn_u_mul_e(rev, nframe, eframe, "h", "w")
    IN  IF msg.err # "" THEN [err |-> msg.err, nframes |-> nframe, m |-> NoTensor]
        ELSE [err |-> "", m |-> msg.val,
              nframes |-> SetColumn(nframe, "h_N", fn_mean(rev, msg.val))]

\* g.update_all(message_func, reduce_func): messages on every edge, reduced
\* at every node; only the reduced field is written to the node frame.
update_all(gr, nframe, eframe, message_func) ==
    LET msg == IF message_func = "copy_u" THEN fn_copy_u(gr, nframe, "h")
               ELSE fn_u_mul_e(gr, nframe, eframe, "h", "w")
    IN  IF msg.err # "" THEN [err |-> msg.err, nframes |-> nframe, m |-> NoTensor]
        ELSE [err |-> "", m |-> msg.val,
              nframes |-> SetColumn(nframe, "h_N", fn_mean(gr, msg.val))]

-----------------------------------------------------------------------------
(* User-defined message and reduce functions, and update_all with them.     *)

\* u_mul_e_udf(edges): edges.src["h"] * edges.data["w"], the product of two
\* tensors with one row per edge; torch stretches a width of 1 and raises
\* on other different widths.
u_mul_e_udf(gr, nframe, eframe) ==
    IF ~Broadcastable(nframe["h"].cols, eframe["w"].cols) THEN Err("RuntimeError")
    ELSE Ok(Tensor(num_edges(gr),
                   IF nframe["h"].cols >= eframe["w"].cols
                       THEN nframe["h"].cols ELSE eframe["w"].cols,
                   [e \in 1..num_edges(gr) |->
                       BroadcastMul(nframe["h"].data[gr.src[e] + 1],
                                    eframe["w"].data[e])]))

\* Sum of the first k rows of a list of rows of width c.
RECURSIVE SumRows(_, _, _)
SumRows(rows, c, k) ==
    IF k = 0 THEN Zeros(c) ELSE VAdd(SumRows(rows, c, k - 1), rows[k])

\* mean_udf(nodes): nodes.mailbox["m"].mean(1).  The mailbox of a batch of
\* nodes of one in-degree holds, for every node, its incoming messages; the
\* mean is taken over the messages of each node.
mean_udf(mailbox, c) ==
    [i \in 1..Len(mailbox) |-> VDiv(SumRows(mailbox[i], c, Len(mailbox[i])),
                                    Len(mailbox[i]))]

\* The ids (+ 1) of the in-edges of node v among the edges 1..k, ascending.
RECURSIVE InEdgeIds(_, _, _)
InEdgeIds(gr, v, k) ==
    IF k = 0 THEN <<>>
    ELSE IF gr.dst[k] = v THEN Append(InEdgeIds(gr, v, k - 1), k)
         ELSE InEdgeIds(gr, v, k - 1)

\* The reduce phase of update_all with a user-defined reduce function
\* (degree bucketing): the function is called once for the nodes of every
\* in-degree above 0, with their messages ordered by edge id; the rows of
\* the nodes without in-edges are filled with zeros.  When no node has an
\* in-edge the function is never called and the result has no field.
invoke_udf_reduce(gr, msg) ==
    LET mailbox == [i \in 1..gr.num_nodes |->
                       [k \in 1..in_degrees(gr, i - 1) |->
                           msg.data[InEdgeIds(gr, i - 1, num_edges(gr))[k]]]]
        bucket(d) == {i \in 1..gr.num_nodes : in_degrees(gr, i - 1) = d}
        \* the nodes of a bucket in ascending order, and their place in it
        place(i) == Cardinality({j \in bucket(in_degrees(gr, i - 1)) : j <= i})
        nodes(d) == [p \in 1..Cardinality(bucket(d)) |->
                        CHOOSE i \in bucket(d) : place(i) = p]
        rst(d) == mean_udf([p \in 1..Cardinality(bucket(d)) |-> mailbox[nodes(d)[p]]],
                           msg.cols)
    IN  IF \A i \in 1..gr.num_nodes : in_degrees(gr, i - 1) = 0 THEN EmptyFrame
        ELSE [k \in {"h_N"} |->
                 Tensor(gr.num_nodes, msg.cols,
                        [i \in 1..gr.num_nodes |->
                            IF in_degrees(gr, i - 1) = 0 THEN Zeros(msg.cols)
                            ELSE rst(in_degrees(gr, i - 1))[place(i)]])]

\* g.update_all(u_mul_e_udf, mean_udf): the fields the reduce phase returns
\* are written to the node frame.
update_all_udf(gr, nframe, eframe) ==
    LET msg == u_mul_e_udf(gr, nframe, eframe)
    IN  IF msg.err # "" THEN [err |-> msg.err, nframes |-> nframe, m |-> NoTensor]
        ELSE LET red == invoke_udf_reduce(gr, msg.val)
             IN  [err |-> "", m |-> msg.val,
                  nframes |-> [k \in (DOMAIN nframe) \cup (DOMAIN red) |->
                                  IF k \in DOMAIN red THEN red[k] ELSE nframe[k]]]

-----------------------------------------------------------------------------
(* torch.cat(dim=1) and nn.Linear.                                          *)

\* torch.cat along dim=0: the rows of b under the rows of a.
torch_cat_dim0(a, b) ==
    IF a.cols # b.cols THEN Err("RuntimeError")
    ELSE Ok(Tensor(a.rows + b.rows, a.cols, a.data \o b.data))

\* torch.cat([h_N, h], dim=1): the operands in the other order.
torch_cat_swapped(a, b) ==
    IF a.rows # b.rows THEN Err("RuntimeError")
    ELSE Ok(Tensor(a.rows, a.cols + b.cols,
                   [i \in 1..a.rows |-> b.data[i] \o a.data[i]]))

torch_cat(a, b) ==
    IF a.rows # b.rows THEN Err("RuntimeError")
    ELSE Ok(Tensor(a.rows, a.cols + b.cols,
                   [i \in 1..a.rows |-> a.data[i] \o b.data[i]]))

\* Dot product of the first k entries of two rows.
RECURSIVE Dot(_, _, _)
Dot(x, y, k) ==
    IF k = 0 THEN 0 ELSE Dot(x, y, k - 1) + FMul(x[k], y[k])

\* y = x W^T + b, for x of shape (rows, in_features).
nn_Linear(lin, x) ==
    IF x.cols # lin.in_features THEN Err("RuntimeError")
    ELSE Ok(Tensor(x.rows, lin.out_features,
                   [i \in 1..x.rows |->
                       [o \in 1..lin.out_features |->
                           Dot(lin.weight[o], x.data[i], lin.in_features)
                               + lin.bias[o]]]))

\* SAGEConv.__init__ (WeightedSAGEConv.__init__ is the same code):
\* self.linear = nn.Linear(in_feat * 2, out_feat).
SAGEConv_init(in_feat, out_feat, weight, bias) ==
    [in_features |-> in_feat * 2, out_features |-> out_feat,
     weight |-> weight, bias |-> bias]

-----------------------------------------------------------------------------
(* The two forward methods.  Each yields the outcome of the whole call:     *)
(* status "ok" or the exception raised, the returned tensor, the messages   *)
(* and the aggregate computed on the way, and the graph's frames after the  *)
(* with-block has been left.                                                *)

Outcome(status, out, m, h_N, frames) ==
    [status |-> status, out |-> out, m |-> m, h_N |-> h_N,
     ndata |-> frames.nframes, edata |-> frames.eframes]

\* The body of the with-block raised err while the graph held frames cur.
Raised(err, old, cur) ==
    Outcome(err, NoTensor, NoTensor, NoTensor, local_scope_exit(old, cur, TRUE))

\* The with-block returned out.
Returned(out, m, h_N, old, cur) ==
    Outcome("ok", out, m, h_N, local_scope_exit(old, cur, FALSE))

\* Lines shared by both forward methods once the temporary inputs are set:
\* update_all, h_N = g.ndata["h_N"], torch.cat([h, h_N], dim=1), self.linear.
Aggregate(gr, lin, h_, old, cur, message_func) ==
    LET u == update_all(gr, cur.nframes, cur.eframes, message_func)
        now == [nframes |-> u.nframes, eframes |-> cur.eframes]
    IN  IF u.err # "" THEN Raised(u.err, old, cur)
        ELSE LET h_total == torch_cat(h_, u.nframes["h_N"])
             IN  IF h_total.err # "" THEN Raised(h_total.err, old, now)
                 ELSE LET y == nn_Linear(lin, h_total.val)
                      IN  IF y.err # "" THEN Raised(y.err, old, now)
                          ELSE Returned(y.val, u.m, u.nframes["h_N"], old, now)

SAGEConv_forward(gr, nframe, eframe, lin, h_) ==
    LET old == [nframes |-> nframe, eframes |-> eframe]
        cur == local_scope_enter(nframe, eframe)
        a == set_ndata(gr, cur.nframes, "h", h_)
    IN  IF a.err # "" THEN Raised(a.err, old, cur)
        ELSE Aggregate(gr, lin, h_, old,
                       [nframes |-> a.val, eframes |-> cur.eframes], "copy_u")

WeightedSAGEConv_forward(gr, nframe, eframe, lin, h_, w_) ==
    LET old == [nframes |-> nframe, eframes |-> eframe]
        cur == local_scope_enter(nframe, eframe)
        a == set_ndata(gr, cur.nframes, "h", h_)
    IN  IF a.err # "" THEN Raised(a.err, old, cur)
        ELSE LET withH == [nframes |-> a.val, eframes |-> cur.eframes]
                 b == set_edata(gr, cur.eframes, "w", w_)
             IN  IF b.err # "" THEN Raised(b.err, old, withH)
                 ELSE Aggregate(gr, lin, h_, old,
                                [nframes |-> a.val, eframes |-> b.val], "u_mul_e")

-----------------------------------------------------------------------------
(* Library layers and functions used by the networks: F.relu, torch.ones,   *)
(* dgl.nn.SAGEConv with the "mean" aggregator, dgl.nn.GraphConv.            *)

\* F.relu that lets every entry through.
F_relu_identity(t) == t

\* F.relu(t): max(0, x) for every entry x.
F_relu(t) ==
    Tensor(t.rows, t.cols,
           [i \in 1..t.rows |->
               [j \in 1..t.cols |-> IF t.data[i][j] > 0 THEN t.data[i][j] ELSE 0]])

\* fn.sum(msg, out): the sum of the incoming messages, zeros without in-edges.
fn_sum(gr, msg) ==
    Tensor(gr.num_nodes, msg.cols,
           [i \in 1..gr.num_nodes |-> SumIn(gr, msg, i - 1, num_edges(gr))])

\* torch.ones(r, c).
torch_ones(r, c) == Const(r, c, Fix(1))

\* The columns lo..hi of the rows of a weight matrix.
Columns(weight, lo, hi) ==
    [o \in 1..Len(weight) |-> [j \in 1..(hi - lo + 1) |-> weight[o][lo + j - 1]]]

\* dgl.nn.SAGEConv(in_feats, out_feats, "mean"): fc_self and fc_neigh are
\* nn.Linear(in_feats, out_feats) without bias, bias is a separate parameter.
dgl_nn_SAGEConv_init(in_feats, out_feats, fc_self, fc_neigh, bias) ==
    [in_feats |-> in_feats, out_feats |-> out_feats,
     fc_self |-> [in_features |-> in_feats, out_features |-> out_feats,
                  weight |-> fc_self, bias |-> Zeros(out_feats)],
     fc_neigh |-> [in_features |-> in_feats, out_features |-> out_feats,
                   weight |-> fc_neigh, bias |-> Zeros(out_feats)],
     bias |-> bias]

\* t + bias, the bias added to every row.
AddBias(t, bias) ==
    Tensor(t.rows, t.cols, [i \in 1..t.rows |-> VAdd(t.data[i], bias)])

\* a + b for two tensors of one shape.
TAdd(a, b) ==
    Tensor(a.rows, a.cols, [i \in 1..a.rows |-> VAdd(a.data[i], b.data[i])])

\* dgl.nn.SAGEConv.forward(graph, feat) with the "mean" aggregator: fc_neigh
\* is applied before the messages are sent when in_feats > out_feats and to
\* the aggregate otherwise; rst = fc_self(feat) + h_neigh + bias.
dgl_nn_SAGEConv_forward(gr, nframe, eframe, conv, feat) ==
    LET old == [nframes |-> nframe, eframes |-> eframe]
        cur == local_scope_enter(nframe, eframe)
        lin_before_mp == conv.in_feats > conv.out_feats
        src == IF lin_before_mp THEN nn_Linear(conv.fc_neigh, feat) ELSE Ok(feat)
    IN  IF src.err # "" THEN Raised(src.err, old, cur)
        ELSE LET a == set_ndata(gr, cur.nframes, "h", src.val)
             IN  IF a.err # "" THEN Raised(a.err, old, cur)
                 ELSE LET neigh == fn_mean(gr, fn_copy_u(gr, a.val, "h").val)
                          now == [nframes |-> SetColumn(a.val, "neigh", neigh),
                                  eframes |-> cur.eframes]
                          h_neigh == IF lin_before_mp THEN Ok(neigh)
                                     ELSE nn_Linear(conv.fc_neigh, neigh)
                          own == nn_Linear(conv.fc_self, feat)
                      IN  IF h_neigh.err # "" THEN Raised(h_neigh.err, old, now)
                          ELSE IF own.err # "" THEN Raised(own.err, old, now)
                          ELSE Returned(AddBias(TAdd(own.val, h_neigh.val), conv.bias),
                                        NoTensor, neigh, old, now)

\* dgl.nn.GraphConv(in_feats, out_feats): norm = "both", a weight of shape
\* (in_feats, out_feats), a bias, allow_zero_in_degree = False.
GraphConv_init(in_feats, out_feats, weight, bias) ==
    [in_feats |-> in_feats, out_feats |-> out_feats, weight |-> weight,
     bias |-> bias]

out_degrees(gr, v) == Cardinality({e \in 1..num_edges(gr) : gr.src[e] = v})

IsSquare(d) == \E r \in 1..d : r * r = d

\* Every in-degree and out-degree, clamped to at least 1, is a square.
SquareDegrees(gr) ==
    \A v \in 0..(gr.num_nodes - 1) :
        /\ in_degrees(gr, v) = 0 \/ IsSquare(in_degrees(gr, v))
        /\ out_degrees(gr, v) = 0 \/ IsSquare(out_degrees(gr, v))

\* row * clamp(d, min=1) ^ (-1/2), for d = 0 or d a square.
NormRow(row, d) ==
    IF d = 0 THEN row
    ELSE LET r == CHOOSE r \in 1..d : r * r = d
         IN  [j \in 1..Len(row) |-> row[j] \div r]

\* torch.matmul(x, weight) for weight of shape (x.cols, out).
th_matmul(x, weight, out) ==
    IF x.cols # Len(weight) THEN Err("RuntimeError")
    ELSE Ok(Tensor(x.rows, out,
                   [i \in 1..x.rows |->
                       [o \in 1..out |->
                           Dot(x.data[i], [k \in 1..x.cols |-> weight[k][o]],
                               x.cols)]]))

\* dgl.nn.GraphConv.forward(graph, feat): a node without in-edges is an
\* error; the features are scaled by out-degree^(-1/2), summed over the
\* in-edges, scaled by in-degree^(-1/2); the weight is applied before the
\* sum when in_feats > out_feats and after it otherwise; then the bias.
GraphConv_forward(gr, nframe, eframe, conv, feat) ==
    LET old == [nframes |-> nframe, eframes |-> eframe]
        cur == local_scope_enter(nframe, eframe)
    IN  IF \E v \in 0..(gr.num_nodes - 1) : in_degrees(gr, v) = 0
            THEN Raised("DGLError", old, cur)
        ELSE IF feat.rows # gr.num_nodes THEN Raised("RuntimeError", old, cur)
        ELSE
        LET scaled == Tensor(feat.rows, feat.cols,
                             [i \in 1..feat.rows |->
                                 NormRow(feat.data[i], out_degrees(gr, i - 1))])
            before == conv.in_feats > conv.out_feats
            src == IF before THEN th_matmul(scaled, conv.weight, conv.out_feats)
                   ELSE Ok(scaled)
        IN  IF src.err # "" THEN Raised(src.err, old, cur)
            ELSE
            LET a == set_ndata(gr, cur.nframes, "h", src.val)
                sum == fn_sum(gr, fn_copy_u(gr, a.val, "h").val)
                now == [nframes |-> SetColumn(a.val, "h", sum),
                        eframes |-> cur.eframes]
                rst == IF before THEN Ok(sum)
                       ELSE th_matmul(sum, conv.weight, conv.out_feats)
            IN  IF rst.err # "" THEN Raised(rst.err, old, now)
                ELSE Returned(
                         AddBias(Tensor(rst.val.rows, rst.val.cols,
                                        [i \in 1..rst.val.rows |->
                                            NormRow(rst.val.data[i],
                                                    in_degrees(gr, i - 1))]),
                                 conv.bias),
                         NoTensor, sum, old, now)

-----------------------------------------------------------------------------
(* The networks: Model (SAGEConv), Model (WeightedSAGEConv), GraphSAGE and  *)
(* GCN.  Each forward yields the outcome of the whole call with the first   *)
(* layer's output h1 and the activation a handed to the second layer.       *)

NetOutcome(kind, status, h1, a, out, frames) ==
    [kind |-> kind, status |-> status, h1 |-> h1, a |-> a, out |-> out,
     ndata |-> frames.ndata, edata |-> frames.edata]

\* Model.forward with F.relu applied to the second layer's output as well.
Model_forward_relu_last(gr, nframe, eframe, conv1, conv2, in_feat) ==
    LET r1 == SAGEConv_forward(gr, nframe, eframe, conv1, in_feat)
    IN  IF r1.status # "ok"
            THEN NetOutcome("Model", r1.status, NoTensor, NoTensor, NoTensor, r1)
        ELSE LET a == F_relu(r1.out)
                 r2 == SAGEConv_forward(gr, r1.ndata, r1.edata, conv2, a)
             IN  NetOutcome("Model", r2.status, r1.out, a,
                            IF r2.status = "ok" THEN F_relu(r2.out) ELSE r2.out, r2)

\* Model.forward (3_message_passing.ipynb, conv1 and conv2 are SAGEConv).
Model_forward(gr, nframe, eframe, conv1, conv2, in_feat) ==
    LET r1 == SAGEConv_forward(gr, nframe, eframe, conv1, in_feat)
    IN  IF r1.status # "ok"
            THEN NetOutcome("Model", r1.status, NoTensor, NoTensor, NoTensor, r1)
        ELSE LET a == F_relu(r1.out)
                 r2 == SAGEConv_forward(gr, r1.ndata, r1.edata, conv2, a)
             IN  NetOutcome("Model", r2.status, r1.out, a, r2.out, r2)

\* Model.forward (3_message_passing.ipynb, conv1 and conv2 are
\* WeightedSAGEConv, the weights are torch.ones(g.num_edges(), 1)).
WeightedModel_forward(gr, nframe, eframe, conv1, conv2, in_feat) ==
    LET r1 == WeightedSAGEConv_forward(gr, nframe, eframe, conv1, in_feat,
                                       torch_ones(num_edges(gr), 1))
    IN  IF r1.status # "ok"
            THEN NetOutcome("WeightedModel", r1.status, NoTensor, NoTensor, NoTensor, r1)
        ELSE LET a == F_relu(r1.out)
                 r2 == WeightedSAGEConv_forward(gr, r1.ndata, r1.edata, conv2, a,
                                                torch_ones(num_edges(gr), 1))
             IN  NetOutcome("WeightedModel", r2.status, r1.out, a, r2.out, r2)

\* GraphSAGE.forward (4_link_predict.ipynb, conv1 and conv2 are dgl.nn.SAGEConv).
GraphSAGE_forward(gr, nframe, eframe, conv1, conv2, in_feat) ==
    LET r1 == dgl_nn_SAGEConv_forward(gr, nframe, eframe, conv1, in_feat)
    IN  IF r1.status # "ok"
            THEN NetOutcome("GraphSAGE", r1.status, NoTensor, NoTensor, NoTensor, r1)
        ELSE LET a == F_relu(r1.out)
                 r2 == dgl_nn_SAGEConv_forward(gr, r1.ndata, r1.edata, conv2, a)
             IN  NetOutcome("GraphSAGE", r2.status, r1.out, a, r2.out, r2)

\* GCN.forward (conv1 and conv2 are dgl.nn.GraphConv).
GCN_forward(gr, nframe, eframe, conv1, conv2, in_feat) ==
    LET r1 == GraphConv_forward(gr, nframe, eframe, conv1, in_feat)
    IN  IF r1.status # "ok"
            THEN NetOutcome("GCN", r1.status, NoTensor, NoTensor, NoTensor, r1)
        ELSE LET a == F_relu(r1.out)
                 r2 == GraphConv_forward(gr, r1.ndata, r1.edata, conv2, a)
             IN  NetOutcome("GCN", r2.status, r1.out, a, r2.out, r2)

-----------------------------------------------------------------------------
(* The edge predictors of 4_link_predict.ipynb: DotPredictor, MLPPredictor. *)

\* A one-dimensional tensor of shape (n,).
Tensor1(n, d) == [rows |-> n, cols |-> 0, data |-> d]

\* fn.u_dot_v with the source's row on both sides.
fn_u_dot_u(gr, nframe, u, v) ==
    Tensor(num_edges(gr), 1,
           [e \in 1..num_edges(gr) |->
               <<Dot(nframe[u].data[gr.src[e] + 1], nframe[u].data[gr.src[e] + 1],
                     nframe[u].cols)>>])

\* fn.u_dot_v(u, v, out): for every edge the dot product of the source's row
\* of u and the destination's row of v, a vector of one element.
fn_u_dot_v(gr, nframe, u, v) ==
    Tensor(num_edges(gr), 1,
           [e \in 1..num_edges(gr) |->
               <<Dot(nframe[u].data[gr.src[e] + 1], nframe[v].data[gr.dst[e] + 1],
                     nframe[u].cols)>>])

\* t[:, 0] for a two-dimensional tensor t.
Column0(t) == Tensor1(t.rows, [i \in 1..t.rows |-> t.data[i][1]])

\* DotPredictor.forward without the local scope: "h" and "score" are
\* assigned to the graph itself.
DotPredictor_forward_no_scope(gr, nframe, eframe, h_) ==
    LET old == [nframes |-> nframe, eframes |-> eframe]
        a == set_ndata(gr, nframe, "h", h_)
    IN  IF a.err # "" THEN Raised(a.err, old, old)
        ELSE LET score == fn_u_dot_v(gr, a.val, "h", "h")
                 now == [nframes |-> a.val,
                         eframes |-> SetColumn(eframe, "score", score)]
             IN  Outcome("ok", Column0(score), NoTensor, NoTensor, now)

\* DotPredictor.forward(g, h).
DotPredictor_forward(gr, nframe, eframe, h_) ==
    LET old == [nframes |-> nframe, eframes |-> eframe]
        cur == local_scope_enter(nframe, eframe)
        a == set_ndata(gr, cur.nframes, "h", h_)
    IN  IF a.err # "" THEN Raised(a.err, old, cur)
        ELSE LET score == fn_u_dot_v(gr, a.val, "h", "h")
                 now == [nframes |-> a.val,
                         eframes |-> SetColumn(cur.eframes, "score", score)]
             IN  Returned(Column0(score), NoTensor, NoTensor, old, now)

\* MLPPredictor.__init__: W1 = nn.Linear(h_feats * 2, h_feats),
\* W2 = nn.Linear(h_feats, 1).
MLPPredictor_init(h_feats, weight1, bias1, weight2, bias2) ==
    [W1 |-> [in_features |-> h_feats * 2, out_features |-> h_feats,
             weight |-> weight1, bias |-> bias1],
     W2 |-> [in_features |-> h_feats, out_features |-> 1,
             weight |-> weight2, bias |-> bias2]]

\* t.squeeze(1) for a tensor t of shape (n, 1).
Squeeze1(t) == Tensor1(t.rows, [i \in 1..t.rows |-> t.data[i][1]])

\* MLPPredictor.apply_edges(edges): edges.src["h"] and edges.dst["h"] hold
\* one row per edge.
MLPPredictor_apply_edges(mlp, gr, nframe) ==
    LET src_h == Tensor(num_edges(gr), nframe["h"].cols,
                        [e \in 1..num_edges(gr) |-> nframe["h"].data[gr.src[e] + 1]])
        dst_h == Tensor(num_edges(gr), nframe["h"].cols,
                        [e \in 1..num_edges(gr) |-> nframe["h"].data[gr.dst[e] + 1]])
        cat == torch_cat(src_h, dst_h)
    IN  IF cat.err # "" THEN cat
        ELSE LET hidden == nn_Linear(mlp.W1, cat.val)
             IN  IF hidden.err # "" THEN hidden
                 ELSE LET score == nn_Linear(mlp.W2, F_relu(hidden.val))
                      IN  IF score.err # "" THEN score
                          ELSE Ok(Squeeze1(score.val))

\* MLPPredictor.forward(g, h).
MLPPredictor_forward(mlp, gr, nframe, eframe, h_) ==
    LET old == [nframes |-> nframe, eframes |-> eframe]
        cur == local_scope_enter(nframe, eframe)
        a == set_ndata(gr, cur.nframes, "h", h_)
    IN  IF a.err # "" THEN Raised(a.err, old, cur)
        ELSE LET withH == [nframes |-> a.val, eframes |-> cur.eframes]
                 score == MLPPredictor_apply_edges(mlp, gr, a.val)
             IN  IF score.err # "" THEN Raised(score.err, old, withH)
                 ELSE Returned(score.val, NoTensor, NoTensor, old,
                               [nframes |-> a.val,
                                eframes |-> SetColumn(cur.eframes, "score", score.val)])

-----------------------------------------------------------------------------
(* The data preparation of 4_link_predict.ipynb: the edge split, the        *)
(* negative candidates, dgl.remove_edges and the four graphs of examples.   *)
(* Edge ids and node ids are 0-based; position i of a list holds element    *)
(* i - 1 of the array it stands for.  A pair is <<u, v>>.                   *)

\* s[a:] and s[:a] for a list s.
From(s, a) == SubSeq(s, a + 1, Len(s))
UpTo(s, a) == SubSeq(s, 1, a)

\* u[ids], v[ids]: the endpoints of the edges ids, in the order of ids.
EndpointsOf(gr, ids) ==
    [i \in 1..Len(ids) |-> <<gr.src[ids[i] + 1], gr.dst[ids[i] + 1]>>]

\* int(len(eids) * 0.1): the product with the double 0.1 is never below the
\* tenth of the length and below the next integer, so the result is the
\* floor of the tenth.
TestSize(n) == n \div 10

\* The split whose training part starts one position early.
edge_split_overlapping(gr, eids) ==
    LET test_size == TestSize(Len(eids))
        first == IF test_size > 0 THEN test_size - 1 ELSE 0
    IN  [eids |-> eids, test_size |-> test_size,
         train_size |-> num_edges(gr) - test_size,
         test_eids |-> UpTo(eids, test_size),
         train_eids |-> From(eids, first),
         test_pos |-> EndpointsOf(gr, UpTo(eids, test_size)),
         train_pos |-> EndpointsOf(gr, From(eids, first))]

\* The first lines of the split cell, for the permutation eids drawn:
\* test_size, train_size, eids[:test_size] and eids[test_size:], and the
\* positive pairs of the two sets.
edge_split(gr, eids) ==
    LET test_size == TestSize(Len(eids))
    IN  [eids |-> eids, test_size |-> test_size,
         train_size |-> num_edges(gr) - test_size,
         test_eids |-> UpTo(eids, test_size),
         train_eids |-> From(eids, test_size),
         test_pos |-> EndpointsOf(gr, UpTo(eids, test_size)),
         train_pos |-> EndpointsOf(gr, From(eids, test_size))]

RECURSIVE MaxOf(_, _)
MaxOf(s, k) ==
    IF k = 1 THEN s[1]
    ELSE LET m == MaxOf(s, k - 1) IN IF s[k] > m THEN s[k] ELSE m

\* sp.coo_matrix((np.ones(len(u)), (u, v))).todense(): no shape is given, so
\* the shape is (max(u) + 1, max(v) + 1), and empty index arrays are an
\* error; entries given twice are summed.
coo_matrix_todense(gr) ==
    IF num_edges(gr) = 0 THEN [err |-> "ValueError", rows |-> 0, cols |-> 0, at |-> <<>>]
    ELSE LET r == MaxOf(gr.src, num_edges(gr)) + 1
             c == MaxOf(gr.dst, num_edges(gr)) + 1
         IN  [err |-> "", rows |-> r, cols |-> c,
              at |-> [i \in 0..(r - 1) |->
                        [j \in 0..(c - 1) |->
                            Cardinality({e \in 1..num_edges(gr) :
                                            gr.src[e] = i /\ gr.dst[e] = j})]]]

\* np.where(m != 0) for an (n, n) matrix m: the pairs in row-major order,
\* among the first k cells.
RECURSIVE np_where(_, _, _)
np_where(m, n, k) ==
    IF k = 0 THEN <<>>
    ELSE LET i == (k - 1) \div n
             j == (k - 1) % n
         IN  IF m[i][j] # 0 THEN Append(np_where(m, n, k - 1), <<i, j>>)
             ELSE np_where(m, n, k - 1)

\* adj, adj_neg = 1 - adj.todense() - np.eye(g.num_nodes()) and
\* neg_u, neg_v = np.where(adj_neg != 0).  The subtraction broadcasts: a
\* dimension of adj must be 1 or num_nodes, otherwise it is an error.
negative_candidates(gr) ==
    LET n == gr.num_nodes
        adj == coo_matrix_todense(gr)
    IN  IF adj.err # "" THEN [err |-> adj.err, neg |-> <<>>]
        ELSE IF ~(Broadcastable(adj.rows, n) /\ Broadcastable(adj.cols, n))
            THEN [err |-> "ValueError", neg |-> <<>>]
        ELSE
        LET adj_neg == [i \in 0..(n - 1) |-> [j \in 0..(n - 1) |->
                           1 - adj.at[IF adj.rows = 1 THEN 0 ELSE i]
                                     [IF adj.cols = 1 THEN 0 ELSE j]
                             - (IF i = j THEN 1 ELSE 0)]]
        IN  [err |-> "", neg |-> np_where(adj_neg, n, n * n)]

\* The negative pairs of the two sets for the indices neg_eids drawn:
\* neg_u[neg_eids[:test_size]], ... and neg_u[neg_eids[test_size:]], ...
negative_split(neg, neg_eids, test_size) ==
    [neg_eids |-> neg_eids,
     test_neg |-> [i \in 1..Len(UpTo(neg_eids, test_size)) |->
                      neg[UpTo(neg_eids, test_size)[i] + 1]],
     train_neg |-> [i \in 1..Len(From(neg_eids, test_size)) |->
                       neg[From(neg_eids, test_size)[i] + 1]]]

\* The k-th smallest element of a set of numbers.
RECURSIVE Kth(_, _)
Kth(S, k) ==
    LET m == CHOOSE x \in S : \A y \in S : x <= y
    IN  IF k = 1 THEN m ELSE Kth(S \ {m}, k - 1)

\* The graph gr and its edge features without the edges at the positions
\* not in kept, the others in their order.
KeepEdges(gr, eframe, kept) ==
    LET n == Cardinality(kept)
    IN  [g |-> [num_nodes |-> gr.num_nodes,
                src |-> [i \in 1..n |-> gr.src[Kth(kept, i)]],
                dst |-> [i \in 1..n |-> gr.dst[Kth(kept, i)]]],
         edata |-> [k \in DOMAIN eframe |->
                       Tensor(n, eframe[k].cols,
                              [i \in 1..n |-> eframe[k].data[Kth(kept, i)]])]]

\* dgl.remove_edges that takes the edges away from the graph given.
remove_edges_in_place(gr, nframe, eframe, ids) ==
    LET kept == {e \in 1..num_edges(gr) : \A i \in 1..Len(ids) : ids[i] + 1 # e}
        new == KeepEdges(gr, eframe, kept)
    IN  [original |-> new.g, g |-> new.g, ndata |-> nframe, edata |-> new.edata]

\* dgl.remove_edges that takes away as many edges as ids are given, the
\* first ones.
remove_edges_first(gr, nframe, eframe, ids) ==
    LET kept == {e \in 1..num_edges(gr) : e > Len(ids)}
        new == KeepEdges(gr, eframe, kept)
    IN  [original |-> gr, g |-> new.g, ndata |-> nframe, edata |-> new.edata]

\* dgl.remove_edges(g, ids): a new graph with the nodes and node features of
\* g and the edges of g whose ids are not in ids, in their order, with their
\* rows of the edge features; the graph given (original) is left as it is.
remove_edges(gr, nframe, eframe, ids) ==
    LET kept == {e \in 1..num_edges(gr) : \A i \in 1..Len(ids) : ids[i] + 1 # e}
        new == KeepEdges(gr, eframe, kept)
    IN  [original |-> gr, g |-> new.g, ndata |-> nframe, edata |-> new.edata]

\* dgl.graph((u, v), num_nodes=n) for a list of pairs: a node id that is not
\* below n is an error.
dgl_graph(pairs, n) ==
    IF \E i \in 1..Len(pairs) : pairs[i][1] >= n \/ pairs[i][2] >= n
        THEN [err |-> "DGLError", g |-> [num_nodes |-> 0, src |-> <<>>, dst |-> <<>>]]
    ELSE [err |-> "",
          g |-> [num_nodes |-> n,
                 src |-> [i \in 1..Len(pairs) |-> pairs[i][1]],
                 dst |-> [i \in 1..Len(pairs) |-> pairs[i][2]]]]

-----------------------------------------------------------------------------
(* Inputs.                                                                  *)

\* Node feature rows [1,0], [0,0], [0,1], repeated.
XExample(v, j) == IF (v % 3 = 0 /\ j = 1) \/ (v % 3 = 2 /\ j = 2) THEN 1 ELSE 0
\* Pairwise different rows with negative entries.
XGeneric(v, j) == IF j = 1 THEN v + 1 ELSE 3 - 2 * v

\* Rows [1,2], [3,4], [5,6], ...
XDot(v, j) == 2 * v + j

WOnes(e, j) == 1
WScalar(e, j) == e + 2
WVector(e, j) == IF j = 1 THEN e + 1 ELSE 3

\* The (r, c) tensor of the integers given by one of the patterns above.
FromInts(r, c, pattern) ==
    Tensor(r, c,
           [i \in 1..r |-> [j \in 1..c |->
               Fix(CASE pattern = "XExample" -> XExample(i - 1, j)
                   [] pattern = "XDot" -> XDot(i - 1, j)
                   [] pattern = "XGeneric" -> XGeneric(i - 1, j)
                   [] pattern = "WOnes" -> WOnes(i - 1, j)
                   [] pattern = "WScalar" -> WScalar(i - 1, j)
                   [] pattern = "WVector" -> WVector(i - 1, j))]])

\* Well-shaped arguments for a graph of n nodes and k edges and a layer of
\* input size 2: features of shape (n, 2); weights torch.ones(k, 1), other
\* weights of shape (k, 1), and weights of shape (k, 2).
GoodFeatures(n) == {FromInts(n, 2, "XExample"), FromInts(n, 2, "XGeneric")}
GoodWeights(k) ==
    {FromInts(k, 1, "WOnes"), FromInts(k, 1, "WScalar"), FromInts(k, 2, "WVector")}

\* Ill-shaped arguments <<h, w>>: a feature row too many, features of width
\* 1 (with weights of width 1 and of width 2), a weight row too many,
\* weights of width 3.
BadArguments(n, k) ==
    {<<FromInts(n + 1, 2, "XExample"), FromInts(k, 1, "WOnes")>>,
     <<FromInts(n, 1, "XGeneric"), FromInts(k, 1, "WOnes")>>,
     <<FromInts(n, 1, "XGeneric"), FromInts(k, 2, "WVector")>>,
     <<FromInts(n, 2, "XExample"), FromInts(k + 1, 1, "WOnes")>>,
     <<FromInts(n, 2, "XGeneric"), FromInts(k, 3, "WScalar")>>}

Arguments(n, k) == (GoodFeatures(n) \X GoodWeights(k)) \cup BadArguments(n, k)

\* The parameters of a layer built with in_feat = 2 and out_feat = 3.
LinearLayers ==
    {SAGEConv_init(2, 3, << <<Fix(1), Fix(2), Fix(3), Fix(4)>>,
                            <<Fix(0), Fix(1), Fix(0), Fix(-1)>>,
                            <<Fix(2), Fix(0), Fix(-1), Fix(1)>> >>,
                   <<Fix(1), Fix(0), Fix(-1)>>)}

\* Features a caller has stored on the graph under the names the layers use.
StoredNodeFrame(gr) ==
    [k \in {"h", "h_N"} |-> Const(gr.num_nodes, 1, Fix(9))]
StoredEdgeFrame(gr) ==
    [k \in {"w", "m"} |-> Const(num_edges(gr), 1, Fix(7))]

-----------------------------------------------------------------------------
(* State machine.                                                           *)

Layers == {"SAGEConv", "WeightedSAGEConv"}

\* What the caller sees of a call of layer l, with the messages and the
\* aggregate the call computed.
Result(l, r) ==
    [layer |-> l, status |-> r.status, out |-> r.out, m |-> r.m, h_N |-> r.h_N]

NoCall ==
    [layer |-> "none", status |-> "none", out |-> NoTensor, m |-> NoTensor,
     h_N |-> NoTensor]

NoGraph == [num_nodes |-> 0, src |-> <<>>, dst |-> <<>>]

\* Before the split cell has run.
NoLp ==
    [pc |-> "start", status |-> "none", eids |-> <<>>, test_size |-> 0,
     train_size |-> 0, test_eids |-> <<>>, train_eids |-> <<>>,
     test_pos |-> <<>>, train_pos |-> <<>>, neg |-> <<>>, neg_eids |-> <<>>,
     test_neg |-> <<>>, train_neg |-> <<>>,
     train_g |-> NoGraph, train_ndata |-> EmptyFrame,
     train_pos_g |-> NoGraph, train_neg_g |-> NoGraph,
     test_pos_g |-> NoGraph, test_neg_g |-> NoGraph]

\* update_all has not been called.
NoUpdate == [err |-> "none", nframes |-> EmptyFrame, m |-> NoTensor]

\* Neither of the two update_all calls compared has run.
NoMp == [builtin |-> NoUpdate, udf |-> NoUpdate]

\* No training loop is running.
NoTr ==
    [loop |-> "none", pc |-> "none", e |-> 0,
     opt |-> [theta |-> 0, t |-> 0, moment |-> 0], grad |-> <<>>,
     labels |-> <<>>, train_mask |-> <<>>, val_mask |-> <<>>, test_mask |-> <<>>,
     logits |-> <<>>, logits_t |-> 0, pred |-> <<>>,
     loss |-> [input |-> <<>>, target |-> <<>>], loss_t |-> 0,
     train_acc |-> <<0, 1>>, val_acc |-> <<0, 1>>, test_acc |-> <<0, 1>>,
     best_val_acc |-> <<0, 1>>, best_test_acc |-> <<0, 1>>,
     val_accs |-> <<>>, test_accs |-> <<>>, ops |-> <<>>, stepped |-> <<>>,
     printed |-> [e |-> -1, loss |-> [input |-> <<>>, target |-> <<>>],
                  val_acc |-> <<0, 1>>, loss_t |-> 0]]

\* No network has been called.
NoNet ==
    [kind |-> "none", status |-> "none", h1 |-> NoTensor, a |-> NoTensor,
     out |-> NoTensor]

Init ==
    /\ g \in Graphs
    /\ \E a \in Arguments(g.num_nodes, num_edges(g)) : h = a[1] /\ w = a[2]
    /\ linear \in LinearLayers
    /\ ndata = EmptyFrame
    /\ edata = EmptyFrame
    /\ last = "none"
    /\ again = FALSE
    /\ ret = NoCall
    /\ net = NoNet
    /\ lp = NoLp
    /\ tr = NoTr
    /\ mp = NoMp

\* conv(g, h) for a SAGEConv layer.
CallSAGEConv ==
    \E r \in {SAGEConv_forward(g, ndata, edata, linear, h)} :
        /\ ndata' = r.ndata
        /\ edata' = r.edata
        /\ last' = "SAGEConv"
        /\ again' = (ret.layer = "SAGEConv")
        /\ ret' = Result("SAGEConv", r)
        /\ UNCHANGED <<g, h, w, linear, net, lp, mp, tr>>

\* conv(g, h, w) for a WeightedSAGEConv layer.
CallWeightedSAGEConv ==
    \E r \in {WeightedSAGEConv_forward(g, ndata, edata, linear, h, w)} :
        /\ ndata' = r.ndata
        /\ edata' = r.edata
        /\ last' = "WeightedSAGEConv"
        /\ again' = (ret.layer = "WeightedSAGEConv")
        /\ ret' = Result("WeightedSAGEConv", r)
        /\ UNCHANGED <<g, h, w, linear, net, lp, mp, tr>>

\* Between calls the caller stores its own features under the names "h",
\* "h_N", "w" and "m".
StoreFeatures ==
    /\ ndata' = StoredNodeFrame(g)
    /\ edata' = StoredEdgeFrame(g)
    /\ last' = "none"
    /\ again' = FALSE
    /\ UNCHANGED <<g, h, w, linear, ret, net, lp, mp, tr>>

Next ==
    \/ CallSAGEConv
    \/ CallWeightedSAGEConv
    \/ StoreFeatures

Spec == Init /\ [][Next]_vars

-----------------------------------------------------------------------------
(* State machine of the networks: a network of two layers is called on the  *)
(* graph with the features h.                                               *)

\* The parameters of a second layer built with in_feat = 3 and out_feat = 2.
Linear2 ==
    SAGEConv_init(3, 2, << <<Fix(1), Fix(-1), Fix(0), Fix(2), Fix(0), Fix(-1)>>,
                           <<Fix(0), Fix(1), Fix(-2), Fix(0), Fix(1), Fix(1)>> >>,
                  <<Fix(0), Fix(1)>>)

\* GraphSAGE.__init__: a dgl.nn.SAGEConv with the numbers of lin; the first
\* half of the columns is the weight of fc_self, the second that of fc_neigh.
GraphSAGE_conv(lin) ==
    LET n == lin.in_features \div 2
    IN  dgl_nn_SAGEConv_init(n, lin.out_features, Columns(lin.weight, 1, n),
                             Columns(lin.weight, n + 1, 2 * n), lin.bias)

\* GCN.__init__: a dgl.nn.GraphConv with the numbers of lin; its weight is
\* the transpose of the first half of the columns.
GCN_conv(lin) ==
    LET n == lin.in_features \div 2
    IN  GraphConv_init(n, lin.out_features,
                       [k \in 1..n |-> [o \in 1..lin.out_features |-> lin.weight[o][k]]],
                       lin.bias)

\* Features for a graph of n nodes: of the declared width 2, and of width 1.
NetFeatures(n) == GoodFeatures(n) \cup {FromInts(n, 1, "XGeneric")}

\* What the caller sees of a network call, with the two intermediate tensors.
NetResult(r) ==
    [kind |-> r.kind, status |-> r.status, h1 |-> r.h1, a |-> r.a, out |-> r.out]

InitNet ==
    /\ g \in Graphs
    /\ h \in NetFeatures(g.num_nodes)
    /\ w = torch_ones(num_edges(g), 1)
    /\ linear \in LinearLayers
    /\ ndata = EmptyFrame
    /\ edata = EmptyFrame
    /\ last = "none"
    /\ again = FALSE
    /\ ret = NoCall
    /\ net = NoNet
    /\ lp = NoLp
    /\ tr = NoTr
    /\ mp = NoMp

\* model(g, features) for a Model of two SAGEConv layers.
CallModel ==
    \E r \in {Model_forward(g, ndata, edata, linear, Linear2, h)} :
        /\ net' = NetResult(r)
        /\ ndata' = r.ndata
        /\ edata' = r.edata
        /\ UNCHANGED <<g, h, w, linear, last, again, ret, lp, mp, tr>>

\* model(g, features) for a Model of two WeightedSAGEConv layers.
CallWeightedModel ==
    \E r \in {WeightedModel_forward(g, ndata, edata, linear, Linear2, h)} :
        /\ net' = NetResult(r)
        /\ ndata' = r.ndata
        /\ edata' = r.edata
        /\ UNCHANGED <<g, h, w, linear, last, again, ret, lp, mp, tr>>

\* model(train_g, train_g.ndata["feat"]) for a GraphSAGE.
CallGraphSAGE ==
    \E r \in {GraphSAGE_forward(g, ndata, edata, GraphSAGE_conv(linear),
                                GraphSAGE_conv(Linear2), h)} :
        /\ net' = NetResult(r)
        /\ ndata' = r.ndata
        /\ edata' = r.edata
        /\ UNCHANGED <<g, h, w, linear, last, again, ret, lp, mp, tr>>

\* model(g, features) for a GCN, on the graphs whose degrees have exact
\* square roots.
CallGCN ==
    /\ SquareDegrees(g)
    /\ \E r \in {GCN_forward(g, ndata, edata, GCN_conv(linear), GCN_conv(Linear2), h)} :
          /\ net' = NetResult(r)
          /\ ndata' = r.ndata
          /\ edata' = r.edata
          /\ UNCHANGED <<g, h, w, linear, last, again, ret, lp, mp, tr>>

NextNet ==
    \/ CallModel
    \/ CallWeightedModel
    \/ CallGraphSAGE
    \/ CallGCN

SpecNet == InitNet /\ [][NextNet]_vars

-----------------------------------------------------------------------------
(* State machine of the predictors: g is a graph of candidate edges, h the  *)
(* node embeddings.                                                         *)

Predictors == {"DotPredictor", "MLPPredictor"}

\* The parameters of an MLPPredictor built with h_feats = 2.
MLP ==
    MLPPredictor_init(2, << <<Fix(1), Fix(-1), Fix(2), Fix(0)>>,
                            <<Fix(0), Fix(1), Fix(-1), Fix(1)>> >>,
                      <<Fix(0), Fix(-1)>>,
                      << <<Fix(1), Fix(-2)>> >>, <<Fix(1)>>)

\* Embeddings for a graph of n nodes: of shape (n, 2), and with a row too
\* many.
ScoreFeatures(n) ==
    {FromInts(n, 2, "XDot"), FromInts(n, 2, "XGeneric"), FromInts(n + 1, 2, "XDot")}

\* Features a caller has stored on the graph under the names the predictors
\* use.
StoredScoreNodeFrame(gr) == [k \in {"h"} |-> Const(gr.num_nodes, 1, Fix(9))]
StoredScoreEdgeFrame(gr) == [k \in {"score"} |-> Const(num_edges(gr), 1, Fix(7))]

InitScore ==
    /\ g \in Graphs
    /\ h \in ScoreFeatures(g.num_nodes)
    /\ w = torch_ones(num_edges(g), 1)
    /\ linear \in LinearLayers
    /\ ndata = EmptyFrame
    /\ edata = EmptyFrame
    /\ last = "none"
    /\ again = FALSE
    /\ ret = NoCall
    /\ net = NoNet
    /\ lp = NoLp
    /\ tr = NoTr
    /\ mp = NoMp

\* pred(g, h) for a DotPredictor.
CallDotPredictor ==
    \E r \in {DotPredictor_forward(g, ndata, edata, h)} :
        /\ ndata' = r.ndata
        /\ edata' = r.edata
        /\ last' = "DotPredictor"
        /\ again' = (ret.layer = "DotPredictor")
        /\ ret' = Result("DotPredictor", r)
        /\ UNCHANGED <<g, h, w, linear, net, lp, mp, tr>>

\* pred(g, h) for an MLPPredictor.
CallMLPPredictor ==
    \E r \in {MLPPredictor_forward(MLP, g, ndata, edata, h)} :
        /\ ndata' = r.ndata
        /\ edata' = r.edata
        /\ last' = "MLPPredictor"
        /\ again' = (ret.layer = "MLPPredictor")
        /\ ret' = Result("MLPPredictor", r)
        /\ UNCHANGED <<g, h, w, linear, net, lp, mp, tr>>

\* Between calls the caller stores its own features under the names "h" and
\* "score".
StoreScoreFeatures ==
    /\ ndata' = StoredScoreNodeFrame(g)
    /\ edata' = StoredScoreEdgeFrame(g)
    /\ last' = "none"
    /\ again' = FALSE
    /\ UNCHANGED <<g, h, w, linear, ret, net, lp, mp, tr>>

NextScore ==
    \/ CallDotPredictor
    \/ CallMLPPredictor
    \/ StoreScoreFeatures

SpecScore == InitScore /\ [][NextScore]_vars

-----------------------------------------------------------------------------
(* State machine of the data preparation: the split cell, the remove_edges  *)
(* cell and the cell that builds the four graphs run in this order; a cell  *)
(* that raises ends the run.                                                *)

\* The k-th ordered pair of different nodes among n nodes, as an edge code.
OffDiagonal(n, k) ==
    LET u == k \div (n - 1)
        r == k % (n - 1)
    IN  u * n + (IF r >= u THEN r + 1 ELSE r)

\* Graphs of SplitEdges edges without self-loops: the edges run through the
\* ordered pairs of different nodes from some pair on, one by one or five by
\* five, coming back to a pair already taken when the pairs are used up.
ManyEdgeGraphs ==
    UNION {{Graph(n, [i \in 1..SplitEdges |->
                         OffDiagonal(n, (start + (i - 1) * step) % (n * (n - 1)))]) :
               start \in 0..(n * (n - 1) - 1), step \in {1, 5}} :
           n \in 2..(MaxNodes + 1)}

SplitGraphs == Graphs \cup ManyEdgeGraphs

\* Outcomes of np.random.permutation(np.arange(k)) explored: the rotations of
\* 0..k-1 and of k-1..0.
EidPermutations(k) ==
    {[i \in 1..k |-> (i - 1 + c) % k] : c \in 0..(k - 1)}
        \cup {[i \in 1..k |-> (k - i + c) % k] : c \in 0..(k - 1)}
        \cup (IF k = 0 THEN {<<>>} ELSE {})

\* Outcomes of np.random.choice(a, size) explored, a > 0: one index for all
\* draws (with replacement), or consecutive indices, from 0 or from a - 1.
Choices(a, size) ==
    {[i \in 1..size |-> (c + (i - 1) * s) % a] : c \in {0, a - 1}, s \in {0, 1}}

\* np.random.choice that draws without replacement: more draws than
\* elements are an error, and no index is drawn twice.
np_random_choice_no_replace(a, size) ==
    IF a < size THEN [err |-> "ValueError", draws |-> {}]
    ELSE [err |-> "",
          draws |-> {d \in Choices(a, size) :
                        \A i, j \in 1..size : d[i] = d[j] => i = j}]

\* np.random.choice(a, size): size indices below a, each drawn on its own
\* (replace=True is the default); drawing from no element is an error
\* unless nothing is drawn.
np_random_choice(a, size) ==
    IF a = 0 /\ size > 0 THEN [err |-> "ValueError", draws |-> {}]
    ELSE [err |-> "", draws |-> IF size = 0 THEN {<<>>} ELSE Choices(a, size)]

\* The features the dataset stores on the nodes of g.
DatasetNodeFrame(gr) == [k \in {"feat"} |-> FromInts(gr.num_nodes, 2, "XGeneric")]

\* The variables of the split cell once it has run with the permutation
\* eids; the cell raises when the candidates cannot be computed or when
\* np.random.choice is to draw from no candidate.
SplitOutcomes(gr, eids) ==
    LET pos == edge_split(gr, eids)
        cand == negative_candidates(gr)
        choice == np_random_choice(Len(cand.neg), num_edges(gr))
        base == [NoLp EXCEPT !.eids = pos.eids, !.test_size = pos.test_size,
                             !.train_size = pos.train_size,
                             !.test_eids = pos.test_eids,
                             !.train_eids = pos.train_eids,
                             !.test_pos = pos.test_pos, !.train_pos = pos.train_pos]
    IN  IF cand.err # ""
            THEN {[base EXCEPT !.pc = "failed", !.status = cand.err]}
        ELSE IF choice.err # ""
            THEN {[base EXCEPT !.pc = "failed", !.status = choice.err,
                               !.neg = cand.neg]}
        ELSE {[base EXCEPT !.pc = "split", !.status = "ok", !.neg = cand.neg,
                           !.neg_eids = s.neg_eids, !.test_neg = s.test_neg,
                           !.train_neg = s.train_neg] :
                 s \in {negative_split(cand.neg, c, pos.test_size) :
                           c \in choice.draws}}

InitSplit ==
    /\ g \in SplitGraphs
    /\ ndata = DatasetNodeFrame(g)
    /\ edata = EmptyFrame
    /\ h = ndata["feat"]
    /\ w = torch_ones(num_edges(g), 1)
    /\ linear \in LinearLayers
    /\ last = "none"
    /\ again = FALSE
    /\ ret = NoCall
    /\ net = NoNet
    /\ lp = NoLp
    /\ tr = NoTr
    /\ mp = NoMp

\* The cell "Split edge set for training and testing".
SplitEdgeSet ==
    /\ lp.pc = "start"
    /\ \E eids \in EidPermutations(num_edges(g)) : lp' \in SplitOutcomes(g, eids)
    /\ UNCHANGED <<g, ndata, edata, h, w, linear, last, again, ret, net, mp, tr>>

\* The cell train_g = dgl.remove_edges(g, eids[:test_size]).
RemoveTestEdges ==
    /\ lp.pc = "split"
    /\ \E r \in {remove_edges(g, ndata, edata, UpTo(lp.eids, lp.test_size))} :
          /\ g' = r.original
          /\ lp' = [lp EXCEPT !.pc = "removed", !.train_g = r.g,
                              !.train_ndata = r.ndata]
    /\ UNCHANGED <<ndata, edata, h, w, linear, last, again, ret, net, mp, tr>>

\* The cell that builds train_pos_g, train_neg_g, test_pos_g, test_neg_g.
BuildExampleGraphs ==
    /\ lp.pc = "removed"
    /\ lp' = [lp EXCEPT !.pc = "built",
                        !.train_pos_g = dgl_graph(lp.train_pos, g.num_nodes).g,
                        !.train_neg_g = dgl_graph(lp.train_neg, g.num_nodes).g,
                        !.test_pos_g = dgl_graph(lp.test_pos, g.num_nodes).g,
                        !.test_neg_g = dgl_graph(lp.test_neg, g.num_nodes).g]
    /\ UNCHANGED <<g, ndata, edata, h, w, linear, last, again, ret, net, mp, tr>>

NextSplit ==
    \/ SplitEdgeSet
    \/ RemoveTestEdges
    \/ BuildExampleGraphs

SpecSplit == InitSplit /\ [][NextSplit]_vars

-----------------------------------------------------------------------------
(* State machine of the comparison of the user-defined functions with the   *)
(* built-in ones: inside WeightedSAGEConv.forward, with "h" and "w" set,    *)
(* update_all is run once with each pair of functions, each run on its own  *)
(* copy of the frames.                                                      *)

\* Arguments the two assignments g.ndata["h"] = h and g.edata["w"] = w take.
StoredArguments(gr) ==
    {a \in Arguments(gr.num_nodes, num_edges(gr)) :
        a[1].rows = gr.num_nodes /\ a[2].rows = num_edges(gr)}

InitUdf ==
    /\ g \in Graphs
    /\ \E a \in StoredArguments(g) : h = a[1] /\ w = a[2]
    /\ linear \in LinearLayers
    /\ ndata = [k \in {"h"} |-> h]
    /\ edata = [k \in {"w"} |-> w]
    /\ last = "none"
    /\ again = FALSE
    /\ ret = NoCall
    /\ net = NoNet
    /\ lp = NoLp
    /\ tr = NoTr
    /\ mp = NoMp

\* g.update_all(fn.u_mul_e("h", "w", "m"), fn.mean("m", "h_N")).
UpdateAllBuiltin ==
    /\ mp.builtin.err = "none"
    /\ mp' = [mp EXCEPT !.builtin = update_all(g, ndata, edata, "u_mul_e")]
    /\ UNCHANGED <<g, ndata, edata, h, w, linear, last, again, ret, net, lp, tr>>

\* g.update_all(u_mul_e_udf, mean_udf).
UpdateAllUdf ==
    /\ mp.udf.err = "none"
    /\ mp' = [mp EXCEPT !.udf = update_all_udf(g, ndata, edata)]
    /\ UNCHANGED <<g, ndata, edata, h, w, linear, last, again, ret, net, lp, tr>>

NextUdf ==
    \/ UpdateAllBuiltin
    \/ UpdateAllUdf

SpecUdf == InitUdf /\ [][NextUdf]_vars

-----------------------------------------------------------------------------
(* The training loops: train(g, model) of 3_message_passing.ipynb and of    *)
(* the node-classification notebook, and the training cell of               *)
(* 4_link_predict.ipynb.  The model trained is any network: its parameters  *)
(* are one of ThetaStates settings, its output a fixed function of the      *)
(* setting.  A loss is kept as the pair of the arguments it was computed    *)
(* from, a gradient as the list of the losses backward() has been called    *)
(* on since the last zero_grad(); the numbers that cross_entropy and Adam   *)
(* compute are not modelled, only what they are computed from.              *)

\* model(g, features): one row of two logits per node, for the parameters
\* theta.
model_call(theta, n) ==
    [v \in 1..n |-> [c \in 1..2 |-> (v * c + theta + v) % 3]]

\* logits.argmax(1): the class (0 or 1) of the larger logit of every row,
\* the first one when the two are equal.
argmax1(logits) ==
    [v \in 1..Len(logits) |-> IF logits[v][2] > logits[v][1] THEN 1 ELSE 0]

\* t[mask] for a boolean mask: the rows of t where the mask is true, in
\* their order, among the first k rows.
RECURSIVE MaskedRows(_, _, _)
MaskedRows(t, mask, k) ==
    IF k = 0 THEN <<>>
    ELSE IF mask[k] THEN Append(MaskedRows(t, mask, k - 1), t[k])
         ELSE MaskedRows(t, mask, k - 1)

\* F.cross_entropy(input, target) and F.binary_cross_entropy_with_logits:
\* a value that is a function of the two arguments.
F_cross_entropy(input, target) == [input |-> input, target |-> target]

\* The loss computed from the logits and labels of every node.
train_loss_all_nodes(logits, labels, train_mask) == F_cross_entropy(logits, labels)

\* loss = F.cross_entropy(logits[train_mask], labels[train_mask]).
train_loss(logits, labels, train_mask) ==
    F_cross_entropy(MaskedRows(logits, train_mask, Len(logits)),
                    MaskedRows(labels, train_mask, Len(labels)))

\* compute_loss(pos_score, neg_score): the scores of the positive and of the
\* negative examples against labels 1 and 0.
compute_loss(pos_score, neg_score) ==
    F_cross_entropy(pos_score \o neg_score,
                    [i \in 1..(Len(pos_score) + Len(neg_score)) |->
                        IF i <= Len(pos_score) THEN 1 ELSE 0])

\* (pred[mask] == labels[mask]).float().mean(): the fraction <<correct,
\* total>> of the nodes of the mask whose prediction is their label.
accuracy(pred, labels, mask) ==
    <<Cardinality({v \in 1..Len(pred) : mask[v] /\ pred[v] = labels[v]}),
      Cardinality({v \in 1..Len(pred) : mask[v]})>>

\* a < b for two fractions with positive denominators.
Less(a, b) == a[1] * b[2] < b[1] * a[2]

\* The update of the best accuracies that also takes an equal one.
update_best_on_ties(best_val_acc, best_test_acc, val_acc, test_acc) ==
    IF ~Less(val_acc, best_val_acc)
        THEN [best_val_acc |-> val_acc, best_test_acc |-> test_acc]
    ELSE [best_val_acc |-> best_val_acc, best_test_acc |-> best_test_acc]

\* if best_val_acc < val_acc: best_val_acc = val_acc; best_test_acc = test_acc.
update_best(best_val_acc, best_test_acc, val_acc, test_acc) ==
    IF Less(best_val_acc, val_acc)
        THEN [best_val_acc |-> val_acc, best_test_acc |-> test_acc]
    ELSE [best_val_acc |-> best_val_acc, best_test_acc |-> best_test_acc]

\* zero_grad that leaves the gradient held as it is.
optimizer_zero_grad_keep(grad) == grad

\* optimizer.zero_grad(): the parameters hold no gradient.
optimizer_zero_grad(grad) == <<>>

\* loss.backward(): the gradient of the loss is added to the gradient the
\* parameters hold.
loss_backward(grad, loss) == Append(grad, loss)

\* A number for a loss: a fixed function of its arguments, rows 1..k.
RECURSIVE LossCode(_, _)
LossCode(loss, k) ==
    IF k = 0 THEN 0
    ELSE LossCode(loss, k - 1)
         + (1 + loss.target[k]) * (1 + loss.input[k][1] + 2 * loss.input[k][2])

\* A number for a gradient held: a fixed function of the losses in it.
RECURSIVE GradCode(_, _)
GradCode(grad, k) ==
    IF k = 0 THEN 0
    ELSE GradCode(grad, k - 1) + LossCode(grad[k], Len(grad[k].input))

\* torch.optim.Adam(model.parameters(), lr=0.01): the parameters, the number
\* of steps taken and Adam's moment estimates.
optim_Adam(theta) == [theta |-> theta, t |-> 0, moment |-> 0]

\* optimizer.step(): Adam folds the gradient held into its moment estimates
\* and moves the parameters by a function of the estimates.
optimizer_step(opt, grad) ==
    LET moment == (opt.moment + GradCode(grad, Len(grad))) % ThetaStates
    IN  [theta |-> (opt.theta + 1 + moment) % ThetaStates,
         t |-> opt.t + 1,
         moment |-> moment]

-----------------------------------------------------------------------------
(* State machine of a training loop.  tr.pc is the statement to run next;   *)
(* the statements of one epoch are the forward pass, the prediction, loss   *)
(* and accuracies with the update of the best accuracies, zero_grad(),      *)
(* backward(), and step() with the bookkeeping up to the end of the body.   *)

Loops == {"message_passing", "node_classification", "link_prediction"}

EpochsOf(loop) ==
    CASE loop = "message_passing" -> EpochsMessagePassing
      [] loop = "node_classification" -> EpochsNodeClassification
      [] loop = "link_prediction" -> EpochsLinkPrediction

\* g.ndata["train_mask"], ["val_mask"], ["test_mask"] for n nodes: disjoint
\* masks with nodes in each, as in the dataset.
Masks(n) ==
    {[train_mask |-> [v \in 1..n |-> v = 1],
      val_mask |-> [v \in 1..n |-> v \in {2, 3}],
      test_mask |-> [v \in 1..n |-> v > 3]],
     [train_mask |-> [v \in 1..n |-> v \in {1, 2}],
      val_mask |-> [v \in 1..n |-> v = 3],
      test_mask |-> [v \in 1..n |-> v > 3]]}

\* g.ndata["label"]: a class for every node.
Labels(n) == [1..n -> {0, 1}]

InitTrain ==
    /\ g = Graph(TrainNodes, <<>>)
    /\ ndata = EmptyFrame
    /\ edata = EmptyFrame
    /\ h = NoTensor
    /\ w = NoTensor
    /\ linear \in LinearLayers
    /\ last = "none"
    /\ again = FALSE
    /\ ret = NoCall
    /\ net = NoNet
    /\ lp = NoLp
    /\ mp = NoMp
    /\ \E loop \in Loops, theta \in {0, 2}, m \in Masks(TrainNodes),
          labels \in Labels(TrainNodes) :
          /\ loop = "link_prediction" => labels = [v \in 1..TrainNodes |-> 0]
          /\ tr = [NoTr EXCEPT !.loop = loop, !.pc = "forward",
                               !.opt = optim_Adam(theta), !.labels = labels,
                               !.train_mask = m.train_mask,
                               !.val_mask = m.val_mask,
                               !.test_mask = m.test_mask]

\* logits = model(g, features); in the link-prediction loop h = model(...)
\* and the scores of the positive and the negative training examples.
Forward ==
    /\ tr.pc = "forward"
    /\ tr' = [tr EXCEPT !.pc = "metrics",
                        !.logits = model_call(tr.opt.theta, TrainNodes),
                        !.logits_t = tr.opt.t,
                        !.ops = <<"forward">>]
    /\ UNCHANGED <<g, ndata, edata, h, w, linear, last, again, ret, net, lp, mp>>

\* pred, loss, the three accuracies and the best accuracies; in the
\* link-prediction loop the loss only.
Metrics ==
    /\ tr.pc = "metrics"
    /\ IF tr.loop = "link_prediction"
           THEN tr' = [tr EXCEPT !.pc = "zero_grad",
                                 !.loss = compute_loss(
                                     MaskedRows(tr.logits, tr.train_mask, TrainNodes),
                                     MaskedRows(tr.logits, tr.val_mask, TrainNodes)),
                                 !.loss_t = tr.logits_t,
                                 !.ops = Append(tr.ops, "loss")]
       ELSE LET pred == argmax1(tr.logits)
                val_acc == accuracy(pred, tr.labels, tr.val_mask)
                test_acc == accuracy(pred, tr.labels, tr.test_mask)
                best == update_best(tr.best_val_acc, tr.best_test_acc,
                                    val_acc, test_acc)
            IN  tr' = [tr EXCEPT !.pc = "zero_grad",
                                 !.pred = pred,
                                 !.loss = train_loss(tr.logits, tr.labels, tr.train_mask),
                                 !.loss_t = tr.logits_t,
                                 !.train_acc = accuracy(pred, tr.labels, tr.train_mask),
                                 !.val_acc = val_acc,
                                 !.test_acc = test_acc,
                                 !.best_val_acc = best.best_val_acc,
                                 !.best_test_acc = best.best_test_acc,
                                 !.val_accs = Append(tr.val_accs, val_acc),
                                 !.test_accs = Append(tr.test_accs, test_acc),
                                 !.ops = Append(tr.ops, "loss")]
    /\ UNCHANGED <<g, ndata, edata, h, w, linear, last, again, ret, net, lp, mp>>

\* optimizer.zero_grad().
ZeroGrad ==
    /\ tr.pc = "zero_grad"
    /\ tr' = [tr EXCEPT !.pc = "backward",
                        !.grad = optimizer_zero_grad(tr.grad),
                        !.ops = Append(tr.ops, "zero_grad")]
    /\ UNCHANGED <<g, ndata, edata, h, w, linear, last, again, ret, net, lp, mp>>

\* loss.backward().
Backward ==
    /\ tr.pc = "backward"
    /\ tr' = [tr EXCEPT !.pc = "step",
                        !.grad = loss_backward(tr.grad, tr.loss),
                        !.ops = Append(tr.ops, "backward")]
    /\ UNCHANGED <<g, ndata, edata, h, w, linear, last, again, ret, net, lp, mp>>

\* optimizer.step(), the print of every fifth epoch, and the next value of
\* e; the loop is left when range(...) is used up.
Step ==
    /\ tr.pc = "step"
    /\ tr' = [tr EXCEPT !.pc = IF tr.e + 1 < EpochsOf(tr.loop) THEN "forward" ELSE "done",
                        !.opt = optimizer_step(tr.opt, tr.grad),
                        !.stepped = tr.grad,
                        !.printed = IF tr.e % 5 = 0
                                        THEN [e |-> tr.e, loss |-> tr.loss,
                                              val_acc |-> tr.val_acc,
                                              loss_t |-> tr.loss_t]
                                    ELSE tr.printed,
                        !.e = tr.e + 1,
                        !.ops = Append(tr.ops, "step")]
    /\ UNCHANGED <<g, ndata, edata, h, w, linear, last, again, ret, net, lp, mp>>

NextTrain ==
    \/ Forward
    \/ Metrics
    \/ ZeroGrad
    \/ Backward
    \/ Step

SpecTrain == InitTrain /\ [][NextTrain]_vars

\* The loop body is straight-line code: a statement that can run does run.
SpecTrainFair == SpecTrain /\ WF_vars(NextTrain)

-----------------------------------------------------------------------------
(* Properties of the layers.                                                *)

\* The latest call was a call of layer l; it returned.
Called(l) == ret.layer = l
Succeeded(l) == ret.layer = l /\ ret.status = "ok"

\* C1 (Isolation): a forward call that returns leaves the graph's
\* connectivity, its stored node and edge feature tables (keys and values)
\* and the caller's tensors h and w as they were before the call; the
\* temporary keys "h", "w", "m", "h_N" are present afterwards only if they
\* were present before, with their old values.
Isolation ==
    [][(last' # "none" /\ ret'.status = "ok")
          => /\ g' = g
             /\ ndata' = ndata
             /\ edata' = edata
             /\ h' = h
             /\ w' = w]_vars

\* A WeightedSAGEConv call has returned on a graph with edges whose tables
\* held the caller's own "h", "h_N", "w" and "m" before the call.
IsolationWitness ==
    /\ last = "WeightedSAGEConv"
    /\ Succeeded("WeightedSAGEConv")
    /\ num_edges(g) > 0
    /\ ndata = StoredNodeFrame(g)
    /\ edata = StoredEdgeFrame(g)

\* C2 (scoped temporary state on failure): a forward call that fails leaves
\* the graph's stored feature tables exactly as before the call, whatever
\* temporary features it had assigned.
DiscardOnFailure ==
    [][(last' # "none" /\ ret'.status # "ok")
          => (ndata' = ndata /\ edata' = edata)]_vars

\* C3 (Determinism): a call of a layer with the graph, features, weights
\* and parameters of the call of that layer before it returns what that call
\* returned (the same tensor, or the same failure), whatever the graph's
\* feature tables hold at either call.
Determinism ==
    [][(last' # "none" /\ ret'.layer = ret.layer)
          => (ret'.status = ret.status /\ ret'.out = ret.out)]_vars

\* SAGEConv has been called a second time and has returned, on a graph that
\* holds stored features.
DeterminismWitness ==
    /\ last = "SAGEConv"
    /\ again
    /\ Succeeded("SAGEConv")
    /\ ndata = StoredNodeFrame(g)

\* Reference arithmetic for the properties below.
Nodes == 0..(g.num_nodes - 1)
InEdges(v) == {e \in 1..num_edges(g) : g.dst[e] = v}
Din == linear.in_features \div 2

RECURSIVE SumF(_, _)
SumF(f, S) ==
    IF S = {} THEN 0
    ELSE LET x == CHOOSE x \in S : TRUE IN f[x] + SumF(f, S \ {x})

\* The integer at row i (1-based), column j of an integer-valued tensor.
IntAt(t, i, j) == t.data[i][j] \div Scale

\* C4 (Mean aggregation): in SAGEConv.forward, for every node v with an
\* incoming edge, h_N[v] is the arithmetic mean of h[u] over the incoming
\* edges (u->v), each parallel edge counted; with nodes 0, 1, 2, edges 0->1
\* and 2->1 and X = [[1,0],[0,0],[0,1]] the aggregate at node 1 is
\* [1/2, 1/2]; a node whose only incoming edge is a self-loop gets its own
\* feature vector.
MeanAggregation ==
    Succeeded("SAGEConv") =>
        /\ \A v \in Nodes : InEdges(v) # {} =>
              \A j \in 1..h.cols :
                  ret.h_N.data[v + 1][j] * Cardinality(InEdges(v)) =
                      Scale * SumF([e \in InEdges(v) |-> IntAt(h, g.src[e] + 1, j)],
                                   InEdges(v))
        /\ (/\ g = [num_nodes |-> 3, src |-> <<0, 2>>, dst |-> <<1, 1>>]
            /\ h.data = << <<Fix(1), Fix(0)>>, <<Fix(0), Fix(0)>>, <<Fix(0), Fix(1)>> >>)
               => \A j \in 1..2 : 2 * ret.h_N.data[2][j] = Fix(1)
        /\ \A v \in Nodes :
              (Cardinality(InEdges(v)) = 1 /\ \A e \in InEdges(v) : g.src[e] = v)
                 => ret.h_N.data[v + 1] = h.data[v + 1]

\* SAGEConv has returned on the graph 0->1, 2->1 with X = [[1,0],[0,0],[0,1]].
MeanAggregationWitness ==
    /\ Succeeded("SAGEConv")
    /\ g = [num_nodes |-> 3, src |-> <<0, 2>>, dst |-> <<1, 1>>]
    /\ h.data = << <<Fix(1), Fix(0)>>, <<Fix(0), Fix(0)>>, <<Fix(0), Fix(1)>> >>
    /\ \A j \in 1..2 : 2 * ret.h_N.data[2][j] = Fix(1)

\* The affine transform of the concatenation of row v of h with zeros.
AffineOfSelf(v, o) ==
    Fix(SumF([j \in 1..Din |->
                 (linear.weight[o][j] \div Scale) * IntAt(h, v + 1, j)], 1..Din)
        + linear.bias[o] \div Scale)

\* C5 (Empty neighbourhood): a node without incoming edges gets the zero
\* vector as h_N and the call succeeds; on a graph without edges every
\* node's output is the affine transform of [h[v] ; 0].
EmptyNeighbourhood ==
    \A l \in Layers : Succeeded(l) =>
        /\ \A v \in Nodes : InEdges(v) = {} =>
              ret.h_N.data[v + 1] = [j \in 1..ret.h_N.cols |-> 0]
        /\ num_edges(g) = 0 =>
              \A v \in Nodes : \A o \in 1..linear.out_features :
                  ret.out.data[v + 1][o] = AffineOfSelf(v, o)

\* WeightedSAGEConv has returned on a graph of three nodes and no edge.
EmptyNeighbourhoodWitness ==
    /\ Succeeded("WeightedSAGEConv")
    /\ g.num_nodes = 3
    /\ num_edges(g) = 0

\* The arguments have the shapes the layer is declared for.
WellShaped(l) ==
    /\ h.rows = g.num_nodes
    /\ h.cols = Din
    /\ l = "WeightedSAGEConv" => (w.rows = num_edges(g) /\ w.cols \in {1, Din})

\* C6 (Output shape): for a graph of N nodes and any number of edges and
\* features of shape (N, Din), the layer built with (Din, Dout) returns a
\* tensor of shape (N, Dout), one row per node.
OutputShape ==
    \A l \in Layers : (Called(l) /\ WellShaped(l)) =>
        /\ Succeeded(l)
        /\ ret.out.rows = g.num_nodes
        /\ ret.out.cols = linear.out_features
        /\ Len(ret.out.data) = g.num_nodes
        /\ \A i \in 1..g.num_nodes : Len(ret.out.data[i]) = linear.out_features

\* A layer has returned on a graph where one node has two incoming edges and
\* another has none.
OutputShapeWitness ==
    /\ Succeeded("SAGEConv")
    /\ \E v \in Nodes : Cardinality(InEdges(v)) = 2
    /\ \E v \in Nodes : InEdges(v) = {}

\* C7 (Message function): the message of edge e = (u->v) is h[u] in SAGEConv
\* and h[u] times the weight row of e, element-wise, in WeightedSAGEConv (a
\* weight of width 1 scales every component).
MessageFunction ==
    /\ Succeeded("SAGEConv") =>
          /\ ret.m.rows = num_edges(g)
          /\ \A e \in 1..num_edges(g) :
                ret.m.data[e] = h.data[g.src[e] + 1]
    /\ Succeeded("WeightedSAGEConv") =>
          /\ ret.m.rows = num_edges(g)
          /\ \A e \in 1..num_edges(g) :
                ret.m.data[e] =
                    [j \in 1..Din |->
                        Fix(IntAt(h, g.src[e] + 1, j)
                            * IntAt(w, e, IF w.cols = 1 THEN 1 ELSE j))]

\* WeightedSAGEConv has returned with weights of width 1 that differ from
\* edge to edge, on a graph with an edge between two different nodes.
MessageFunctionWitness ==
    /\ Succeeded("WeightedSAGEConv")
    /\ w.cols = 1
    /\ \E e \in 1..num_edges(g) : \E f \in 1..num_edges(g) :
          /\ w.data[e] # w.data[f]
          /\ g.src[e] # g.dst[e]
          /\ h.data[g.src[e] + 1] # h.data[g.dst[e] + 1]

\* C8 (Combine): out[v] = W * concat(h[v], h_N[v]) + b, the first Din
\* columns of W applied to the input feature of v and the last Din columns
\* to its aggregate.
Combine ==
    \A l \in Layers : Succeeded(l) =>
        \A v \in Nodes : \A o \in 1..linear.out_features :
            Scale * ret.out.data[v + 1][o] =
                SumF([j \in 1..Din |-> linear.weight[o][j] * h.data[v + 1][j]],
                     1..Din)
                + SumF([j \in 1..Din |->
                           linear.weight[o][Din + j] * ret.h_N.data[v + 1][j]],
                       1..Din)
                + Scale * linear.bias[o]

\* A layer has returned and some node's aggregate differs from its feature.
CombineWitness ==
    /\ Succeeded("WeightedSAGEConv")
    /\ \E v \in Nodes :
          /\ InEdges(v) # {}
          /\ ret.h_N.data[v + 1] # h.data[v + 1]

AggregatorTypes == {"mean", "sum", "max"}

\* Row x is the reduction a of the messages arriving at node v in the latest
\* call.
IsReduction(x, a, v) ==
    \A j \in 1..ret.m.cols :
        LET col == [e \in InEdges(v) |-> ret.m.data[e][j]]
        IN  CASE a = "mean" -> x[j] * Cardinality(InEdges(v)) = SumF(col, InEdges(v))
              [] a = "sum" -> x[j] = SumF(col, InEdges(v))
              [] a = "max" -> /\ \E e \in InEdges(v) : x[j] = col[e]
                              /\ \A e \in InEdges(v) : col[e] <= x[j]

\* C9 as stated (Aggregation choice): whichever of mean, sum and max is
\* selected, a node with in-edges gets that reduction of its incoming
\* messages.  The layers take no such selection, so each selection is served
\* by the one reduction the code performs.
AggregationChoice ==
    \A l \in Layers : Succeeded(l) =>
        \A a \in AggregatorTypes : \A v \in Nodes :
            InEdges(v) # {} => IsReduction(ret.h_N.data[v + 1], a, v)

\* C9 as amended: the layers reduce with the mean and nothing else; every
\* node with in-edges gets the mean of its incoming messages, in SAGEConv
\* and in WeightedSAGEConv.
MeanOnly ==
    \A l \in Layers : Succeeded(l) =>
        \A v \in Nodes :
            InEdges(v) # {} =>
                /\ Len(ret.h_N.data[v + 1]) = ret.m.cols
                /\ IsReduction(ret.h_N.data[v + 1], "mean", v)

\* WeightedSAGEConv has returned and at some node with two in-edges the mean
\* of the messages is neither their sum nor their maximum.
MeanOnlyWitness ==
    /\ Succeeded("WeightedSAGEConv")
    /\ \E v \in Nodes :
          /\ Cardinality(InEdges(v)) = 2
          /\ IsReduction(ret.h_N.data[v + 1], "mean", v)
          /\ ~IsReduction(ret.h_N.data[v + 1], "sum", v)
          /\ ~IsReduction(ret.h_N.data[v + 1], "max", v)

\* The exceptions the shape checks of the libraries raise.
ShapeMismatch == {"DGLError", "RuntimeError"}

-----------------------------------------------------------------------------
(* Failures of a layer call.                                                *)

\* C12 (No partial results): a forward call that fails returns no tensor and
\* leaves no aggregate computed on the way in the graph's node table: an
\* "h_N" held after the step is the "h_N" the caller had stored before it.
NoPartialResults ==
    [][(last' # "none" /\ ret'.status # "ok")
          => /\ ret'.out = NoTensor
             /\ "h_N" \in DOMAIN ndata' =>
                   ("h_N" \in DOMAIN ndata /\ ndata'["h_N"] = ndata["h_N"])]_vars

-----------------------------------------------------------------------------
(* The networks.                                                            *)

\* y is the output of a GraphSAGE-type layer with the given weight and bias
\* for the input x on the graph g: for every node, the first half of the
\* weight's columns applied to its row of x, the second half to the mean of
\* the rows of x over its in-edges (zeros without in-edges), plus the bias.
IsSAGEOutput(weight, bias, x, y) ==
    /\ y.rows = g.num_nodes
    /\ y.cols = Len(weight)
    /\ \A v \in Nodes : \A o \in 1..Len(weight) :
          LET d == IF InEdges(v) = {} THEN 1 ELSE Cardinality(InEdges(v))
              n == x.cols
          IN  d * Scale * y.data[v + 1][o] =
                  d * SumF([j \in 1..n |-> weight[o][j] * x.data[v + 1][j]], 1..n)
                  + SumF([j \in 1..n |->
                             weight[o][n + j]
                                 * SumF([e \in InEdges(v) |-> x.data[g.src[e] + 1][j]],
                                        InEdges(v))],
                         1..n)
                  + d * Scale * bias[o]

\* The square root of a square.
Root(d) == CHOOSE r \in 1..d : r * r = d

\* y is the output of a graph-convolution layer whose weight is the
\* transpose of the first half of the given columns: for every node, the sum
\* over its in-edges (u->v) of x[u] W / sqrt(outdeg(u)), over sqrt(indeg(v)),
\* plus the bias.
IsGCNOutput(weight, bias, x, y) ==
    /\ y.rows = g.num_nodes
    /\ y.cols = Len(weight)
    /\ \A v \in Nodes : \A o \in 1..Len(weight) :
          Root(Cardinality(InEdges(v))) * Scale * (y.data[v + 1][o] - bias[o]) =
              SumF([e \in InEdges(v) |->
                       SumF([j \in 1..x.cols |->
                                (x.data[g.src[e] + 1][j]
                                    \div Root(out_degrees(g, g.src[e])))
                                * weight[o][j]],
                            1..x.cols)],
                   InEdges(v))

IsLayerOutput(kind, lin, x, y) ==
    IF kind = "GCN" THEN IsGCNOutput(lin.weight, lin.bias, x, y)
    ELSE IsSAGEOutput(lin.weight, lin.bias, x, y)

\* C13 (Stacking): a network call that returns has computed
\* conv2(g, relu(conv1(g, x))): h1 is the first layer's output for x on g,
\* a is max(0, h1) entry by entry, and the value returned is the second
\* layer's output for a on the same graph g, with nothing applied to it.
Stacking ==
    net.status = "ok" =>
        /\ IsLayerOutput(net.kind, linear, h, net.h1)
        /\ net.a.rows = net.h1.rows
        /\ net.a.cols = net.h1.cols
        /\ \A i \in 1..net.h1.rows : \A j \in 1..net.h1.cols :
              net.a.data[i][j] = IF net.h1.data[i][j] < 0 THEN 0 ELSE net.h1.data[i][j]
        /\ IsLayerOutput(net.kind, Linear2, net.a, net.out)

\* A Model has returned on a graph with edges; the first layer's output has
\* a negative entry and so has the value returned.
StackingWitness ==
    /\ net.kind = "Model"
    /\ net.status = "ok"
    /\ num_edges(g) > 0
    /\ \E i \in 1..net.h1.rows : \E j \in 1..net.h1.cols : net.h1.data[i][j] < 0
    /\ \E i \in 1..net.out.rows : \E j \in 1..net.out.cols : net.out.data[i][j] < 0

-----------------------------------------------------------------------------
(* The predictors.                                                          *)

\* C14 (Dot-product scoring): DotPredictor.forward returns a vector of one
\* score per edge of g, in edge order; the score of edge e = (u, v) is the
\* sum over k of h[u][k] * h[v][k]; rows [1,2] and [3,4] give 11.
DotProductScoring ==
    Succeeded("DotPredictor") =>
        /\ ret.out.rows = num_edges(g)
        /\ Len(ret.out.data) = num_edges(g)
        /\ \A e \in 1..num_edges(g) :
              /\ Scale * ret.out.data[e] =
                     SumF([k \in 1..h.cols |->
                              h.data[g.src[e] + 1][k] * h.data[g.dst[e] + 1][k]],
                          1..h.cols)
              /\ (/\ h.data[g.src[e] + 1] = <<Fix(1), Fix(2)>>
                  /\ h.data[g.dst[e] + 1] = <<Fix(3), Fix(4)>>)
                     => ret.out.data[e] = Fix(11)

\* DotPredictor has returned on a graph with an edge from a node with row
\* [1,2] to a node with row [3,4] and a second, different edge.
DotProductScoringWitness ==
    /\ Succeeded("DotPredictor")
    /\ num_edges(g) = 2
    /\ g.src[1] # g.src[2]
    /\ \E e \in 1..num_edges(g) :
          /\ h.data[g.src[e] + 1] = <<Fix(1), Fix(2)>>
          /\ h.data[g.dst[e] + 1] = <<Fix(3), Fix(4)>>
          /\ ret.out.data[e] = Fix(11)

\* C15 (Pairwise scoring has no side effects): a predictor call that returns
\* leaves the graph, its node and edge feature tables ("h" and "score"
\* included) and the embeddings h as they were before the call, and returns
\* what the call of that predictor before it returned.
ScoringNoSideEffects ==
    [][(last' \in Predictors /\ ret'.status = "ok")
          => /\ g' = g
             /\ ndata' = ndata
             /\ edata' = edata
             /\ h' = h
             /\ ret.layer = ret'.layer => ret'.out = ret.out]_vars

\* MLPPredictor has returned a second time, on a graph with edges that holds
\* the caller's own "h" and "score".
ScoringNoSideEffectsWitness ==
    /\ last = "MLPPredictor"
    /\ again
    /\ Succeeded("MLPPredictor")
    /\ num_edges(g) > 0
    /\ ndata = StoredScoreNodeFrame(g)
    /\ edata = StoredScoreEdgeFrame(g)


-----------------------------------------------------------------------------
(* Properties of the data preparation.                                      *)

\* gr has an edge from u to v.
HasEdge(gr, u, v) == \E e \in 1..num_edges(gr) : gr.src[e] = u /\ gr.dst[e] = v

\* The number of edges of gr from u to v.
EdgeCount(gr, u, v) ==
    Cardinality({e \in 1..num_edges(gr) : gr.src[e] = u /\ gr.dst[e] = v})

\* Two graphs on the same nodes have the same edges, each as many times.
SameEdgeMultiset(g1, g2) ==
    /\ g1.num_nodes = g2.num_nodes
    /\ \A u, v \in 0..(g1.num_nodes - 1) : EdgeCount(g1, u, v) = EdgeCount(g2, u, v)

\* C16: every candidate negative pair the split cell produces, and every
\* edge of train_neg_g and test_neg_g, is a pair of nodes u, v with no edge
\* from u to v in g, on every graph.
NegativesAreNonEdges ==
    /\ \A i \in 1..Len(lp.neg) : ~HasEdge(g, lp.neg[i][1], lp.neg[i][2])
    /\ \A e \in 1..num_edges(lp.train_neg_g) :
          ~HasEdge(g, lp.train_neg_g.src[e], lp.train_neg_g.dst[e])
    /\ \A e \in 1..num_edges(lp.test_neg_g) :
          ~HasEdge(g, lp.test_neg_g.src[e], lp.test_neg_g.dst[e])


\* The elements of a list.
Range(s) == {s[i] : i \in 1..Len(s)}

\* C17: once the split cell has drawn its permutation, the test positive
\* set has floor(E / 10) edges and the training positive set the other
\* E - floor(E / 10); the ids of the two sets are disjoint, together they
\* are all the edge ids 0..E-1 of g, and the pairs are the endpoints of
\* these edges.
PositiveSplit ==
    lp.pc # "start" =>
        LET E == num_edges(g)
            tenth == CHOOSE k \in 0..E : 10 * k <= E /\ E < 10 * k + 10
        IN  /\ Len(lp.test_pos) = tenth
            /\ Len(lp.train_pos) = E - tenth
            /\ Len(lp.test_eids) = tenth
            /\ Len(lp.train_eids) = E - tenth
            /\ Range(lp.test_eids) \cap Range(lp.train_eids) = {}
            /\ Range(lp.test_eids) \cup Range(lp.train_eids) = 0..(E - 1)
            /\ Cardinality(Range(lp.test_eids)) = tenth
            /\ Cardinality(Range(lp.train_eids)) = E - tenth
            /\ \A i \in 1..tenth :
                  lp.test_pos[i] = <<g.src[lp.test_eids[i] + 1], g.dst[lp.test_eids[i] + 1]>>
            /\ \A i \in 1..(E - tenth) :
                  lp.train_pos[i] = <<g.src[lp.train_eids[i] + 1], g.dst[lp.train_eids[i] + 1]>>

\* C17 happens: a permutation other than 0..E-1 has split the edges into a
\* test set and a training set, both with edges.
PositiveSplitWitness ==
    /\ lp.pc = "split"
    /\ Len(lp.test_pos) > 0
    /\ Len(lp.train_pos) > 0
    /\ lp.eids[1] # 0


\* Some two different nodes u, v of gr have no edge from u to v.
HasNonEdgePair(gr) ==
    \E u, v \in 0..(gr.num_nodes - 1) : u # v /\ ~HasEdge(gr, u, v)

\* C18: on every graph with a pair of different nodes that is not an edge,
\* the split cell produces as many test negatives as test positives
\* (test_size) and as many training negatives as training positives
\* (E - test_size).
BalancedNegatives ==
    (lp.pc # "start" /\ HasNonEdgePair(g)) =>
        /\ lp.status = "ok"
        /\ Len(lp.test_neg) = lp.test_size
        /\ Len(lp.test_neg) = Len(lp.test_pos)
        /\ Len(lp.train_neg) = num_edges(g) - lp.test_size
        /\ Len(lp.train_neg) = Len(lp.train_pos)


\* C19: the step train_g = dgl.remove_edges(g, eids[:test_size]) leaves g
\* with all its E edges and its node features, and train_g has the N nodes
\* and the node features of g and exactly the E - test_size edges of g whose
\* ids are not among the ids removed.
RemovalDerivesGraph ==
    [][(lp.pc = "split" /\ lp'.pc = "removed") =>
          LET removed == Range(UpTo(lp.eids, lp.test_size))
          IN  /\ g' = g
              /\ num_edges(g') = Len(lp.eids)
              /\ ndata' = ndata
              /\ lp'.train_g.num_nodes = g.num_nodes
              /\ lp'.train_ndata = ndata
              /\ num_edges(lp'.train_g) = num_edges(g) - lp.test_size
              /\ \A u, v \in 0..(g.num_nodes - 1) :
                    EdgeCount(lp'.train_g, u, v) =
                        Cardinality({e \in 1..num_edges(g) :
                                        /\ (e - 1) \notin removed
                                        /\ g.src[e] = u /\ g.dst[e] = v})]_vars

\* C19 happens: edges have been removed, train_g has edges left and g has
\* node features.
RemovalDerivesGraphWitness ==
    /\ lp.pc = "removed"
    /\ lp.test_size > 0
    /\ num_edges(lp.train_g) > 0
    /\ num_edges(lp.train_g) < num_edges(g)
    /\ "feat" \in DOMAIN ndata
    /\ lp.train_ndata = ndata


\* No two edges of gr have the same source and the same destination.
NoParallelEdges(gr) ==
    \A e1, e2 \in 1..num_edges(gr) :
        (gr.src[e1] = gr.src[e2] /\ gr.dst[e1] = gr.dst[e2]) => e1 = e2

\* C20 as stated: the edges of train_g are those of train_pos_g, each as many
\* times, and no test positive pair is an edge of train_g, on every graph,
\* with parallel edges or without.
NoTestEdgeInTrainGraph ==
    lp.pc = "built" =>
        /\ SameEdgeMultiset(lp.train_g, lp.train_pos_g)
        /\ \A i \in 1..Len(lp.test_pos) :
              ~HasEdge(lp.train_g, lp.test_pos[i][1], lp.test_pos[i][2])

\* C20, amended: the edges of train_g are those of train_pos_g, each as many
\* times; a test positive pair is an edge of train_g exactly when a training
\* positive edge has the same endpoints, so on a graph without parallel
\* edges no test positive pair is an edge of train_g.
NoTestEdgeInSimpleTrainGraph ==
    lp.pc = "built" =>
        /\ SameEdgeMultiset(lp.train_g, lp.train_pos_g)
        /\ \A i \in 1..Len(lp.test_pos) :
              HasEdge(lp.train_g, lp.test_pos[i][1], lp.test_pos[i][2])
                  <=> \E j \in 1..Len(lp.train_pos) : lp.train_pos[j] = lp.test_pos[i]
        /\ NoParallelEdges(g) =>
              \A i \in 1..Len(lp.test_pos) :
                  ~HasEdge(lp.train_g, lp.test_pos[i][1], lp.test_pos[i][2])

\* C20 happens: the graphs are built from a graph without parallel edges,
\* with a test edge taken out by a permutation that does not start at edge 0.
NoTestEdgeInSimpleTrainGraphWitness ==
    /\ lp.pc = "built"
    /\ NoParallelEdges(g)
    /\ Len(lp.test_pos) > 0
    /\ lp.eids[1] # 0
    /\ num_edges(lp.train_g) > 0


\* C21: the split cell draws E indices into the candidates, each on its
\* own: whenever there is a candidate the draw succeeds, also with fewer
\* candidates than edges, every index is the index of a candidate, and the
\* negative sets are the candidates at the indices drawn, a candidate as
\* often as its index was drawn.
DrawsWithReplacement ==
    (lp.pc # "start" /\ Len(lp.neg) > 0) =>
        /\ lp.status = "ok"
        /\ Len(lp.neg_eids) = num_edges(g)
        /\ \A i \in 1..Len(lp.neg_eids) : lp.neg_eids[i] \in 0..(Len(lp.neg) - 1)
        /\ lp.test_neg = [i \in 1..lp.test_size |-> lp.neg[lp.neg_eids[i] + 1]]
        /\ lp.train_neg = [i \in 1..(num_edges(g) - lp.test_size) |->
                              lp.neg[lp.neg_eids[lp.test_size + i] + 1]]

\* C21 happens: with more than one candidate to draw from, one pair is
\* drawn twice into the training negatives and is a test negative as well.
DrawsWithReplacementWitness ==
    /\ lp.pc = "split"
    /\ Len(lp.neg) > 1
    /\ \E i, j \in 1..Len(lp.train_neg) :
          /\ i # j
          /\ lp.train_neg[i] = lp.train_neg[j]
          /\ \E k \in 1..Len(lp.test_neg) : lp.test_neg[k] = lp.train_neg[i]


-----------------------------------------------------------------------------
(* Properties of the user-defined functions.                                *)

\* C22: on every graph, for all features h and weights w, update_all with
\* u_mul_e_udf and mean_udf computes the messages and leaves the field "h_N"
\* that update_all with fn.u_mul_e and fn.mean computes and leaves, also at
\* nodes without in-edges.
UdfMatchesBuiltin ==
    (mp.builtin.err # "none" /\ mp.udf.err # "none") =>
        /\ mp.udf.m = mp.builtin.m
        /\ ("h_N" \in DOMAIN mp.udf.nframes) <=> ("h_N" \in DOMAIN mp.builtin.nframes)
        /\ "h_N" \in DOMAIN mp.builtin.nframes =>
              mp.udf.nframes["h_N"] = mp.builtin.nframes["h_N"]


-----------------------------------------------------------------------------
(* Properties of the weighted layer.                                        *)

\* The integer weight of edge e (1-based) that multiplies column j.
WeightAt(e, j) == IntAt(w, e, IF w.cols = 1 THEN 1 ELSE j)

\* C23 (Weighted average): in WeightedSAGEConv.forward, for every node v with
\* an incoming edge, h_N[v] is the sum of w[e] * h[u] over the incoming edges
\* e = (u->v) divided by the sum of the weights w[e] of these edges.
WeightedAverage ==
    Succeeded("WeightedSAGEConv") =>
        \A v \in Nodes : InEdges(v) # {} =>
            \A j \in 1..h.cols :
                ret.h_N.data[v + 1][j]
                        * SumF([e \in InEdges(v) |-> WeightAt(e, j)], InEdges(v)) =
                    Scale * SumF([e \in InEdges(v) |->
                                     WeightAt(e, j) * IntAt(h, g.src[e] + 1, j)],
                                 InEdges(v))


-----------------------------------------------------------------------------
(* Properties of the training loops.                                        *)

\* The loop is one of the two train() functions.
InTrain == tr.loop \in {"message_passing", "node_classification"}

\* Two fractions are the same number.
Same(a, b) == a[1] * b[2] = b[1] * a[2]

\* The earliest epoch (1-based) among the first k whose validation accuracy
\* is the largest of the first k.
RECURSIVE EarliestBest(_)
EarliestBest(k) ==
    IF k = 1 THEN 1
    ELSE LET i == EarliestBest(k - 1)
         IN  IF Less(tr.val_accs[i], tr.val_accs[k]) THEN k ELSE i

FirstBestEpoch == EarliestBest(Len(tr.val_accs))

\* best_val_acc is the largest validation accuracy observed.
BestValIsMax ==
    (InTrain /\ Len(tr.val_accs) >= 1) =>
        Same(tr.best_val_acc, tr.val_accs[FirstBestEpoch])

\* best_val_acc never decreases, and best_test_acc changes only in a step in
\* which best_val_acc strictly increases.
BestMonotone ==
    /\ ~Less(tr'.best_val_acc, tr.best_val_acc)
    /\ tr'.best_test_acc # tr.best_test_acc => Less(tr.best_val_acc, tr'.best_val_acc)

-----------------------------------------------------------------------------
(* Directionality of one layer.                                             *)

\* The layers called on a graph with well-shaped features and the weights
\* torch.ones(E, 1) that Model passes.
InitConv ==
    /\ g \in Graphs
    /\ h \in GoodFeatures(g.num_nodes)
    /\ w = torch_ones(num_edges(g), 1)
    /\ linear \in LinearLayers
    /\ ndata = EmptyFrame
    /\ edata = EmptyFrame
    /\ last = "none"
    /\ again = FALSE
    /\ ret = NoCall
    /\ net = NoNet
    /\ lp = NoLp
    /\ tr = NoTr
    /\ mp = NoMp

NextConv ==
    \/ CallSAGEConv
    \/ CallWeightedSAGEConv

SpecConv == InitConv /\ [][NextConv]_vars

\* The tensor t with row i (1-based) replaced by the row x.
WithRow(t, i, x) == [t EXCEPT !.data[i] = x]

\* Rows to put in the place of the feature row of one node: zeros, and the
\* row with every entry one higher.
OtherRows(row) == {Zeros(Len(row)), [j \in 1..Len(row) |-> row[j] + Fix(1)]}

\* What the latest call returns when it is made with the features h_.
Recall(h_) ==
    IF ret.layer = "SAGEConv" THEN SAGEConv_forward(g, ndata, edata, linear, h_)
    ELSE WeightedSAGEConv_forward(g, ndata, edata, linear, h_, w)

\* Node a (0-based) is the source of an edge into node b.
Sends(a, b) == \E e \in 1..num_edges(g) : g.src[e] = a /\ g.dst[e] = b

\* C25: Directionality.  After a call of a layer that returned, the output
\* row of node v is the one the call returns on any features that differ
\* from h only in the row of a node w # v that has no edge w -> v, also when
\* an edge v -> w exists: messages flow from an edge's source to its
\* destination only.
Directionality ==
    (ret.layer \in Layers /\ ret.status = "ok") =>
        \A n \in 0..(g.num_nodes - 1) :
            (\E v \in 0..(g.num_nodes - 1) : n # v /\ ~Sends(n, v)) =>
                \A x \in OtherRows(h.data[n + 1]) :
                    LET r == Recall(WithRow(h, n + 1, x))
                    IN  /\ r.status = "ok"
                        /\ \A v \in 0..(g.num_nodes - 1) :
                              (n # v /\ ~Sends(n, v)) =>
                                  r.out.data[v + 1] = ret.out.data[v + 1]

\* Witness for C25: a SAGEConv call returned on a graph with an edge v -> w
\* and no edge w -> v, where v has an in-edge of its own; another feature
\* for w changes the output at w and leaves the output at v as it is.
DirectionalityWitness ==
    /\ ret.layer = "SAGEConv" /\ ret.status = "ok"
    /\ \E v \in 0..(g.num_nodes - 1) : \E n \in 0..(g.num_nodes - 1) :
        /\ n # v /\ Sends(v, n) /\ ~Sends(n, v)
        /\ \E u \in 0..(g.num_nodes - 1) : Sends(u, v)
        /\ \E x \in OtherRows(h.data[n + 1]) :
            LET r == Recall(WithRow(h, n + 1, x))
            IN  /\ x # h.data[n + 1]
                /\ r.out.data[n + 1] # ret.out.data[n + 1]
                /\ r.out.data[v + 1] = ret.out.data[v + 1]


-----------------------------------------------------------------------------
(* What the loss and the parameter updates of train() depend on.            *)

\* The label assignments that give the nodes of the training mask the
\* labels they have.
SameOnTrainMask ==
    {l \in Labels(TrainNodes) :
        \A v \in 1..TrainNodes : tr.train_mask[v] => l[v] = tr.labels[v]}

\* The statement that computes the loss assigns what it computes from the
\* logits and labels of the training nodes, whatever the other labels are.
LossStatement ==
    (InTrain /\ tr.pc = "metrics") =>
        \A l \in SameOnTrainMask :
            /\ tr'.loss = train_loss(tr.logits, l, tr.train_mask)
            /\ Len(tr'.loss.input) = Cardinality({v \in 1..TrainNodes : tr.train_mask[v]})

\* optimizer.step() moves the parameters by what it would with any other
\* labels outside the training mask, the logits being those of the
\* parameters before the step.
StepStatement ==
    (InTrain /\ tr.pc = "step") =>
        \A l \in SameOnTrainMask :
            tr'.opt = optimizer_step(tr.opt,
                          <<train_loss(model_call(tr.opt.theta, TrainNodes), l,
                                       tr.train_mask)>>)

\* C26: Loss uses training nodes only.  In train() the loss of an epoch is
\* computed from the logits and labels of exactly the nodes whose train_mask
\* is true, and the labels of the other nodes influence neither the loss nor
\* any parameter update.
LossUsesTrainingNodesOnly == [][LossStatement /\ StepStatement]_vars

\* Witness for C26: an epoch of train() has ended with a step on its loss;
\* other labels outside the training mask give the same loss and another
\* validation accuracy.
LossUsesTrainingNodesOnlyWitness ==
    /\ InTrain /\ tr.pc = "forward" /\ tr.e >= 2
    /\ tr.stepped = <<tr.loss>>
    /\ \E l \in SameOnTrainMask :
        /\ l # tr.labels
        /\ train_loss(tr.logits, l, tr.train_mask) = tr.loss
        /\ accuracy(tr.pred, l, tr.val_mask) # tr.val_acc


-----------------------------------------------------------------------------
(* The protocol of the training loops.                                      *)

\* The statements of one epoch in the order of the loop body.
EpochOrder == <<"forward", "loss", "zero_grad", "backward", "step">>

\* The number of statements of the current epoch that have run when the
\* statement tr.pc is the next one.
StatementsRun ==
    CASE tr.pc = "forward" -> IF tr.e = 0 THEN 0 ELSE 5
      [] tr.pc = "metrics" -> 1
      [] tr.pc = "zero_grad" -> 2
      [] tr.pc = "backward" -> 3
      [] tr.pc = "step" -> 4
      [] tr.pc = "done" -> 5

\* In a state of a training loop: e epochs are complete and e steps taken,
\* never more than the loop's number of epochs and exactly that many when
\* the loop is left; the statements of the epoch ran in the order of
\* EpochOrder; the logits and the loss of epoch e, and what is printed for
\* it, come from parameters that e steps have updated; the latest step used
\* the gradient of the loss of its own epoch only.
ProtocolState ==
    tr.loop \in Loops =>
        /\ tr.opt.t = tr.e
        /\ tr.e <= EpochsOf(tr.loop)
        /\ tr.pc = "done" <=> tr.e = EpochsOf(tr.loop)
        /\ tr.ops = SubSeq(EpochOrder, 1, StatementsRun)
        /\ tr.pc \in {"metrics", "zero_grad", "backward", "step"} => tr.logits_t = tr.e
        /\ tr.pc \in {"zero_grad", "backward", "step"} => tr.loss_t = tr.e
        /\ tr.pc = "step" => tr.grad = <<tr.loss>>
        /\ (tr.pc \in {"forward", "done"} /\ tr.e >= 1) =>
               /\ tr.stepped = <<tr.loss>>
               /\ tr.loss_t = tr.e - 1
               /\ tr.printed.e = 5 * ((tr.e - 1) \div 5)
        /\ tr.printed.e >= 0 => tr.printed.loss_t = tr.printed.e

\* C27: Training-loop protocol.  train() ends after exactly 200 epochs (100
\* in the node-classification and link-prediction loops) with one optimizer
\* step per epoch; in every epoch the order is forward pass, metrics and
\* loss, zero_grad, backward, step; what is printed for epoch e was computed
\* from parameters that had received e updates, and every step uses the
\* gradient of its own epoch only.
TrainingLoopProtocol ==
    /\ []ProtocolState
    /\ <>(tr.pc = "done" /\ tr.e = EpochsOf(tr.loop) /\ tr.opt.t = EpochsOf(tr.loop))

\* Witness for C27: the loop of 3_message_passing.ipynb has ended after 200
\* epochs and 200 steps, the last print being that of epoch 195.
TrainingLoopProtocolWitness ==
    /\ tr.loop = "message_passing" /\ tr.pc = "done"
    /\ tr.e = 200 /\ tr.opt.t = 200 /\ tr.printed.e = 195
    /\ tr.ops = EpochOrder


\* Every endpoint of every edge of gr is one of the nodes 0..n-1.
EndpointsBelow(gr, n) ==
    \A e \in 1..num_edges(gr) : gr.src[e] \in 0..(n - 1) /\ gr.dst[e] \in 0..(n - 1)

\* The endpoints of the four example graphs are nodes of g.
ExampleEndpointsInRange ==
    /\ EndpointsBelow(lp.train_pos_g, g.num_nodes)
    /\ EndpointsBelow(lp.test_pos_g, g.num_nodes)
    /\ EndpointsBelow(lp.train_neg_g, g.num_nodes)
    /\ EndpointsBelow(lp.test_neg_g, g.num_nodes)

\* C28: No self-pairs among negatives.  On every graph g, also one with
\* self-loops, no candidate negative pair is a pair (u, u), train_neg_g and
\* test_neg_g have no self-loop, and every endpoint of the positive and
\* negative example graphs is a node id in 0..N-1 of g.
NoSelfPairs ==
    /\ \A i \in 1..Len(lp.neg) : lp.neg[i][1] # lp.neg[i][2]
    /\ \A e \in 1..num_edges(lp.train_neg_g) : lp.train_neg_g.src[e] # lp.train_neg_g.dst[e]
    /\ \A e \in 1..num_edges(lp.test_neg_g) : lp.test_neg_g.src[e] # lp.test_neg_g.dst[e]
    /\ ExampleEndpointsInRange

====
